---- MODULE Spec2Model ----
(***************************************************************************)
(* Process supervision of the Vensim / Vengine simulator by vst.py:        *)
(* run_vengine_script (stall detection, popup bypass, exit-code            *)
(* classification, health checks, unbounded retry), run_vensim_script      *)
(* (bounded retry) and the check functions and payoff reader of            *)
(* vst_text.py that they call; the Script constructor and write_script,    *)
(* read_payoff and read_outvals as functions of their arguments, and       *)
(* write_log called by two supervisors on one logfile.                     *)
(***************************************************************************)
EXTENDS Integers, Sequences, FiniteSets, TLC

\* ------------------------------------------------------------------ bounds
\* Largest number of simulator launches explored in one invocation.
MaxAttempts == 2
\* Largest number of wait-timeout expiries explored within one attempt.
MaxTimeouts == 2
\* Largest timelimit (in clock ticks) a caller passes.
MaxLimit == 2

\* Largest number of parameter lines in an .out file given to check_zeroes.
MaxParams == 2
\* Largest number of digits of a simulation count or a RESTART_MAX value.
MaxDigits == 2
\* Largest number of change files in a control file, of chglist entries and of
\* variable overrides given to a Script.
MaxChanges == 2
MaxChglist == 2
MaxSetvals == 2
\* Largest number of lines of a file given to read_payoff and to read_outvals.
MaxLines == 3
MaxRows == 2
\* Largest number of strings one supervisor logs.
MaxLogged == 2
MaxScripts == 2
\* Longest text and largest dict given to rep_strings; most definitions in a
\* model file and most lines in an input file given to update_mdl_params.
MaxText == 3
MaxKeys == 2
MaxDefs == 2
MaxInputs == 2
\* The payoffs given to check_payoffs reach from 10.00 to 10.00 + MaxSpread/100.
MaxSpread == 20

\* ------------------------------------------------------------- exit codes
\* proc.returncode before the process has been reaped.
None == "None"
\* Exit codes the simulator (or TerminateProcess) can end with.  They are
\* kept as numerals because 3221225477 (0xC0000005) exceeds 32 bits.
ExitCodes == {"0", "1", "3221225477"}
\* The exit code a process gets from TerminateProcess(handle, 1).
KilledCode == "1"

AcceptedMut(rc) == rc = "0" \/ rc = "3221225477" \/ rc = None
\* vst.py:275  proc.returncode == 0 or proc.returncode == 3221225477
Accepted(rc) == rc = "0" \/ rc = "3221225477"

\* ------------------------------------------------------------------ files
\* np.inf, the default of a bound that the parameter line does not give.
Inf == 1000
\* np.nan, the default of a value that the parameter line does not give; it
\* compares unequal to 0.
NaN == 999
\* The name of the parameter on a line (one name serves: no reader compares
\* names) and None, the default of a name that the line does not give.
ParamName == 1
NoName == 0
\* A parameter line of an .out file, [lower <=] name = value [<= upper], as
\* outputline.split('= ') sees it: the parts in order, " <" and blanks
\* stripped, and whether parts[0] ends with '<' (the line gives a lower bound).
Line(lt, parts) == [lt |-> lt, parts |-> parts]
\* A parameter line with both bounds.
Param(lo, v, up) == Line(TRUE, <<lo, ParamName, v, up>>)

\* A text file, by what the readers of vst_text.py take from it:
\*   exists   the file is present in the working directory
\*   lines    per line, in file order, the numeric tokens of that line
\*            (only the leading lines a reader indexes are kept)
\*   after    the N of "After N simulations" in line 0 (<<>> if absent)
\*   restart  per :RESTART_MAX line, its digit groups (<<>> if no such line)
\*            N and the digit groups are text: the sequence of their digits
\*   params   the parameter lines (those not starting with ':')
\* A payoff is the decimal of its numeric token, in hundredths: n stands for
\* the token n/100 and, once read, for float(n/100).
File(e, ls, a, r, ps) ==
    [exists |-> e, lines |-> ls, after |-> a, restart |-> r, params |-> ps]

NoFile == File(FALSE, <<>>, <<>>, <<>>, <<>>)
\* A complete optimisation result: 7 simulations, 1 restart, payoff 10.00.
GoodOut == File(TRUE, <<<<7>>, <<1000>>>>, <<<<7>>>>, <<<<<<1>>>>>>, <<Param(0, 2, 5)>>)
\* Silent optimiser failure: as many simulations as restarts.
SpamOut == File(TRUE, <<<<1>>, <<1000>>>>, <<<<1>>>>, <<<<<<1>>>>>>, <<Param(0, 2, 5)>>)
\* A parameter zeroed although 0 is outside its range.
ZeroedOut == File(TRUE, <<<<7>>, <<1000>>>>, <<<<7>>>>, <<<<<<1>>>>>>, <<Param(1, 0, 5)>>)
\* A result file whose payoff line holds no number.
NoNumOut == File(TRUE, <<<<7>>, <<>>>>, <<<<7>>>>, <<<<<<1>>>>>>, <<Param(0, 2, 5)>>)
\* A result file cut off before any line was written.
EmptyOut == File(TRUE, <<>>, <<>>, <<>>, <<>>)

OutFiles == {GoodOut, SpamOut, ZeroedOut, NoNumOut, EmptyOut}

\* Report files (payoff in line 0): agreeing with GoodOut, and off by 0.20.
GoodRep == File(TRUE, <<<<1005>>>>, <<>>, <<>>, <<>>)
BadRep == File(TRUE, <<<<1020>>>>, <<>>, <<>>, <<>>)
RepFiles == {GoodRep, BadRep}

\* ------------------------------------------------------- vst_text readers
\* The outcome of a call: a value, or the exception it raises.
Value(v) == [exc |-> "", val |-> v]
Raise(e) == [exc |-> e, val |-> 0]

PayoffLineMut(ext) == 0
\* read_payoff: line 0 of a .rep file, line 1 of any other file; the first
\* numeric token of that line.
PayoffLine(ext) == IF ext = ".rep" THEN 0 ELSE 1

read_payoffMut(f, ext) ==
    IF ~f.exists THEN Raise("FileNotFoundError")
    ELSE IF Len(f.lines) <= PayoffLine(ext) THEN Raise("IndexError")
    ELSE IF f.lines[PayoffLine(ext) + 1] = <<>> THEN Value(0)
    ELSE Value(f.lines[PayoffLine(ext) + 1][1])
\* payoffline = f.readlines()[line]; [float(s) for s in regex.findall(...)][0]
read_payoff(f, ext) ==
    IF ~f.exists THEN Raise("FileNotFoundError")
    ELSE IF Len(f.lines) <= PayoffLine(ext) THEN Raise("IndexError")
    ELSE IF f.lines[PayoffLine(ext) + 1] = <<>> THEN Raise("IndexError")
    ELSE Value(f.lines[PayoffLine(ext) + 1][1])

WarnedMut(ext) ==
    IF ext = ".rep" THEN <<>>
    ELSE <<<<"Warning: attempting to read payoff from">>>>
\* read_payoff: the warning it logs before it opens a file that ends with
\* neither '.rep' nor '.out'.
Warned(ext) ==
    IF ext = ".rep" \/ ext = ".out" THEN <<>>
    ELSE <<<<"Warning: attempting to read payoff from">>>>

Abs(x) == IF x < 0 THEN -x ELSE x

\* Binary floating point (Python's float, IEEE 754 double, 53-bit significand).
\* b^e modulo m.
RECURSIVE PowMod(_, _, _)
PowMod(b, e, m) == IF e = 0 THEN 1 % m ELSE (b * PowMod(b, e - 1, m)) % m

\* The residue of x modulo m that is nearest to 0.
Sym(x, m) == LET r == x % m IN IF 2 * r <= m THEN r ELSE r - m

\* The floats around n/100 (n >= 7) are the multiples of 2^-UlpExp(n):
\* 2^(52-k) <= n/100 < 2^(53-k).
UlpExp(n) ==
    CHOOSE k \in 40..56 : 100 * 2^(56 - k) <= 16 * n /\ 16 * n < 200 * 2^(56 - k)

\* float(s) for the decimal s = n/100 (n = 0 or n >= 7) is the multiple of
\* 2^-k nearest to it, k = UlpExp(n); FloatOff(n) is what the conversion
\* loses, (n/100 - float(n/100)) * 100 * 2^56.  No n is halfway between two
\* floats (n * 2^k is a multiple of 4, 50 is not).
FloatOff(n) ==
    IF n = 0 THEN 0
    ELSE Sym(n * PowMod(2, UlpExp(n), 100), 100) * 2^(56 - UlpExp(n))

\* A float x, exactly: x = (h * 2^56 - off) / (100 * 2^56), with |off| < 2^56.
\* a - b of two floats read from decimals: exact when b <= 2a and a <= 2b or
\* one of them is 0; when it is rounded, h differs from the threshold's and
\* decides every comparison made with the result.
FloatSub(a, b) == [h |-> a - b, off |-> FloatOff(a) - FloatOff(b)]

\* abs(x)
FloatAbs(x) ==
    IF x.h < 0 \/ (x.h = 0 /\ x.off > 0) THEN [h |-> -x.h, off |-> -x.off] ELSE x

FloatGEMut(x, t) == IF x.h # t.h THEN x.h > t.h ELSE x.off < t.off
\* x >= t
FloatGE(x, t) == IF x.h # t.h THEN x.h > t.h ELSE x.off <= t.off

\* check_payoffs' default threshold, 0.1, in hundredths, and the float it is.
Threshold == 10
ThresholdFloat == [h |-> Threshold, off |-> FloatOff(Threshold)]

\* The outcome of a check function: "True", "False" or the exception raised.
Bool(b) == IF b THEN "True" ELSE "False"

\* The extensions of Vensim's binary result file.
VdfExts == {".vdf", ".vdfx"}

check_outputMut(vdfs) == Bool(".vdf" \in vdfs)
\* os.path.exists(f"./{scriptname}.vdf") or os.path.exists(f"./{scriptname}.vdfx")
check_output(vdfs) == Bool(".vdf" \in vdfs \/ ".vdfx" \in vdfs)

check_payoffs(out, rep) ==
    LET o == read_payoff(out, ".out")
        r == read_payoff(rep, ".rep")
    IN  IF o.exc # "" THEN o.exc
        ELSE IF r.exc # "" THEN r.exc
        ELSE Bool(~FloatGE(FloatAbs(FloatSub(o.val, r.val)), ThresholdFloat))

check_restartsMut(out) ==
    IF ~out.exists THEN "FileNotFoundError"
    ELSE IF out.restart # <<>> /\ out.restart[1] = <<>> THEN "IndexError"
    ELSE IF out.lines = <<>> THEN "IndexError"
    ELSE LET restarts == IF out.restart = <<>> THEN <<0>>
                         ELSE <<out.restart[1][1][1]>>
         IN  Bool(~(out.after # <<>> /\ out.after[1] = restarts))
\* restarts is 0 unless a line holds ':RESTART_MAX', then the first digit group
\* of the first such line, as text; the test is whether line 0 contains
\* "After {restarts} simulations", which compares the digits.
check_restarts(out) ==
    IF ~out.exists THEN "FileNotFoundError"
    ELSE IF out.restart # <<>> /\ out.restart[1] = <<>> THEN "IndexError"
    ELSE IF out.lines = <<>> THEN "IndexError"
    ELSE LET restarts == IF out.restart = <<>> THEN <<0>> ELSE out.restart[1][1]
         IN  Bool(~(out.after # <<>> /\ out.after[1] = restarts))

\* out = [-np.inf, None, np.nan, np.inf]
OutDefaults == <<-Inf, NoName, NaN, Inf>>

\* parse_outval: the parts overwrite the defaults from position 0 if the line
\* gives a lower bound, from position 1 if not; what they do not reach keeps
\* its default.
parse_outval(l) ==
    LET n == Len(l.parts)
        out == IF l.lt
               THEN l.parts \o SubSeq(OutDefaults, n + 1, 4)
               ELSE <<OutDefaults[1]>> \o l.parts \o SubSeq(OutDefaults, n + 2, 4)
    IN  [Name |-> out[2], Value |-> out[3], Lower |-> out[1], Upper |-> out[4]]

\* A line of an .out file as read_outvals meets it: whether its first
\* character is ':' and, for parse_outval, its parts.
Row(colon, line) == [colon |-> colon, line |-> line]

ParamsMut(rows) ==
    [i \in 1..Len(rows) |-> rows[i].line]
\* [line for line in f.readlines() if line[0] != ':']
Params(rows) ==
    LET NotControl(r) == ~r.colon
        kept == SelectSeq(rows, NotControl)
    IN  [i \in 1..Len(kept) |-> kept[i].line]

\* read_outvals: parse_outval of every line that does not start with ':'.
read_outvals(f) == [i \in 1..Len(f.params) |-> parse_outval(f.params[i])]

ZeroedMut(line) == ((0 <= line.Lower) \/ (0 >= line.Upper)) /\ line.Value = 0
\* One line of check_zeroes' loop: 0 out of bounds but the value is 0.
Zeroed(line) == ((0 < line.Lower) \/ (0 > line.Upper)) /\ line.Value = 0

check_zeroes(out) ==
    IF ~out.exists THEN "FileNotFoundError"
    ELSE LET outdata == read_outvals(out)
         IN  Bool(\A i \in 1..Len(outdata) : ~Zeroed(outdata[i]))

CheckNames == {"check_output", "check_payoffs", "check_restarts", "check_zeroes"}

\* func(scriptname, logfile) on the files of the working directory.
Call(func, out, rep, vdf) ==
    CASE func = "check_output" -> check_output(vdf)
      [] func = "check_payoffs" -> check_payoffs(out, rep)
      [] func = "check_restarts" -> check_restarts(out)
      [] func = "check_zeroes" -> check_zeroes(out)

IsException(r) == r # "True" /\ r # "False"

\* evaluation of [func(scriptname, logfile) for func in check_funcs]: the
\* calls are made in list order and stop at the first one that raises.
FirstRaise(fs, out, rep, vdf) ==
    LET bad == {i \in 1..Len(fs) : IsException(Call(fs[i], out, rep, vdf))}
    IN  IF bad = {} THEN Len(fs) + 1
        ELSE CHOOSE i \in bad : \A j \in bad : i <= j

\* all() over a generator: the calls stop at the first result that is not True.
ComprehensionMut(fs, out, rep, vdf) ==
    LET stop == {i \in 1..Len(fs) : Call(fs[i], out, rep, vdf) # "True"}
        called == IF stop = {} THEN Len(fs)
                  ELSE CHOOSE i \in stop : \A j \in stop : i <= j
    IN  [invoked |-> SubSeq(fs, 1, called),
         results |-> [i \in 1..called |-> Call(fs[i], out, rep, vdf)]]

Comprehension(fs, out, rep, vdf) ==
    LET n == FirstRaise(fs, out, rep, vdf)
        called == IF n > Len(fs) THEN Len(fs) ELSE n
    IN  [invoked |-> SubSeq(fs, 1, called),
         results |-> [i \in 1..called |-> Call(fs[i], out, rep, vdf)]]

AllMut(rs) == \E i \in 1..Len(rs) : rs[i] # "True"
\* all(list)
All(rs) == \A i \in 1..Len(rs) : rs[i] = "True"

\* ----------------------------------------------------------------- Script
\* Text is kept as the sequence of the pieces it is concatenated from.  A file
\* name of the control file is <<stem, extension>>, the extension being its
\* last four characters.

\* getattr(self, s)[:-4] + sfx + getattr(self, s)[-4:]
Suffixed(v, sfx) == SubSeq(v, 1, Len(v) - 1) \o <<sfx, v[Len(v)]>>

\* An entry c of chglist: a str (type "str", names = <<c>>), a tuple of a str
\* and a suffix (type "pair", names = <<c[0]>>) or a tuple of a list of names
\* and a suffix (type "list", names = c[0]).
Chg(type, names, sfx) == [type |-> type, names |-> names, sfx |-> sfx]

\* [c] if isinstance(c, str)
\* else [f"{self.basename}{name}{c[1]}.out" for name in c[0]] if isinstance(c[0], list)
\* else [f"{self.basename}{c[0]}{c[1]}.out"]
Expand(basename, c) ==
    IF c.type = "str" THEN <<c.names>>
    ELSE [i \in 1..Len(c.names) |-> <<basename, c.names[i], c.sfx, ".out">>]

\* [i for s in lists for i in s]
RECURSIVE Flatten(_)
Flatten(lists) ==
    IF lists = <<>> THEN <<>> ELSE Head(lists) \o Flatten(Tail(lists))

\* The default runcmd / savecmd combos by simtype.
Defaults(savelist) ==
    [o  |-> <<<<"RUN_OPTIMIZE|o">>, <<"VDF2TAB|!|!|">> \o savelist \o <<"|">>>>,
     r  |-> <<<<"RUN|o">>, <<"VDF2TAB|!|!|">> \o savelist \o <<"|">>>>,
     s  |-> <<<<"RUN_SENSITIVITY|o">>, <<"SENS2FILE|!|!|%#T">>>>,
     sf |-> <<<<"RUN_SENSITIVITY|o">>, <<"SENS2FILE|!|!|#T[">>>>]

OverwrittenMut(controlfile, cmd, default) ==
    IF controlfile["runcmd"] # "" THEN <<controlfile[cmd]>> ELSE default
\* if controlfile[cmd]: self.__setattr__(cmd, controlfile[cmd])
Overwritten(controlfile, cmd, default) ==
    IF controlfile[cmd] # "" THEN <<controlfile[cmd]>> ELSE default

\* Script.__init__: the attributes of the object it leaves, or the exception
\* it raises (the defaults dictionary reads self.savelist whatever simtype
\* is, controlfile[cmd] needs both keys, self.changes.extend needs the list).
Script(controlfile, name, sfxs, chglist, setvals, simtype) ==
    LET sc == controlfile["simcontrol"]
        basename == controlfile["basename"]
        attrs == [k \in DOMAIN sc |->
                     IF k \in DOMAIN sfxs THEN Suffixed(sc[k], sfxs[k]) ELSE sc[k]]
        own == {"basename", "runname", "runcmd", "savecmd", "setvals"}
    IN  IF "savelist" \notin DOMAIN attrs THEN Raise("AttributeError")
        ELSE IF {"runcmd", "savecmd"} \cap DOMAIN controlfile # {"runcmd", "savecmd"}
        THEN Raise("KeyError")
        ELSE IF "changes" \notin DOMAIN attrs THEN Raise("AttributeError")
        ELSE LET defaults == Defaults(attrs["savelist"])
                 flat == Flatten([i \in 1..Len(chglist) |-> Expand(basename, chglist[i])])
             IN  Value([k \in DOMAIN attrs \cup own |->
                     IF k = "basename" THEN basename
                     ELSE IF k = "runname" THEN <<basename, name>>
                     ELSE IF k = "runcmd"
                     THEN Overwritten(controlfile, "runcmd", defaults[simtype][1])
                     ELSE IF k = "savecmd"
                     THEN Overwritten(controlfile, "savecmd", defaults[simtype][2])
                     ELSE IF k = "setvals" THEN setvals
                     ELSE IF k = "changes" THEN attrs["changes"] \o flat
                     ELSE attrs[k]])

BoundMut(k) == "same"
\* self.__setattr__(k, v if isinstance(v, str) else v.copy()): the attribute
\* is bound to the control file's own object when that is a str, and to a
\* new list with the same items when it is one of the lists.
Bound(k) == IF k \in {"data", "changes"} THEN "copy" ELSE "same"

\* The control file once Script.__init__ has ended: self.changes.extend(flat),
\* the one statement that changes an object in place, reaches the control
\* file's list when self.changes is bound to that very list.  The statements
\* that raise come before it or are that statement itself.
ControlAfter(controlfile, name, sfxs, chglist, setvals, simtype) ==
    LET s == Script(controlfile, name, sfxs, chglist, setvals, simtype)
        sc == controlfile["simcontrol"]
        flat == Flatten([i \in 1..Len(chglist) |->
                            Expand(controlfile["basename"], chglist[i])])
    IN  IF s.exc # "" \/ Bound("changes") # "same" THEN controlfile
        ELSE [controlfile EXCEPT
                 !["simcontrol"] = [sc EXCEPT !["changes"] = @ \o flat]]

\* The lines write_log is given by Script.__init__.
ScriptLogged(controlfile) ==
    <<<<"Initialising">>>>
    \o (IF "runcmd" \in DOMAIN controlfile /\ controlfile["runcmd"] # ""
        THEN <<<<"Overwriting default", "runcmd">>>> ELSE <<>>)
    \o (IF {"runcmd", "savecmd"} \subseteq DOMAIN controlfile /\ controlfile["savecmd"] # ""
        THEN <<<<"Overwriting default", "savecmd">>>> ELSE <<>>)

\* ','.join(self.data)
RECURSIVE Join(_)
Join(texts) ==
    IF texts = <<>> THEN <<>>
    ELSE IF Len(texts) = 1 THEN texts[1]
    ELSE texts[1] \o <<",">> \o Join(Tail(texts))

\* f"{val}" of a one-digit int
Format(val) == <<"0", "1", "2", "3", "4", "5", "6", "7", "8", "9">>[val + 1]

\* The settings write_script looks for, in the order of its loop.
Settings == <<"payoff", "sensitivity", "optparm", "savelist", "senssavelist">>

\* hasattr(self, s)
Has(self, s) == s \in DOMAIN self

SettingLinesMut(self) ==
    LET has(s) == Has(self, s)
        settings == SelectSeq(Settings, has)
        n == Len(settings)
    IN  [i \in 1..n |->
            IF Has(self, "data") THEN <<"SIMULATE>", settings[i], "|">> \o self[settings[i]]
            ELSE <<"SIMULATE>", settings[n + 1 - i], "|">> \o self[settings[n + 1 - i]]]
\* for s in [...]: if hasattr(self, s): cmdtext.append(f"SIMULATE>{s}|{getattr(self, s)}\n")
SettingLines(self) ==
    LET has(s) == Has(self, s)
        settings == SelectSeq(Settings, has)
    IN  [i \in 1..Len(settings) |->
            <<"SIMULATE>", settings[i], "|">> \o self[settings[i]]]

\* if hasattr(self, 'data'): cmdtext.append(f"SIMULATE>DATA|\"{','.join(self.data)}\"\n")
DataLines(self) ==
    IF Has(self, "data")
    THEN <<<<"SIMULATE>DATA|\"">> \o Join(self["data"]) \o <<"\"">>>>
    ELSE <<>>

ChangeLinesMut(self) ==
    IF Has(self, "changes")
    THEN [i \in 1..Len(self["changes"]) |->
             <<IF i = Len(self["changes"]) THEN "SIMULATE>READCIN|" ELSE "SIMULATE>ADDCIN|">>
             \o self["changes"][i]]
    ELSE <<>>
\* READCIN for self.changes[0], ADDCIN for each of self.changes[1:]
ChangeLines(self) ==
    IF Has(self, "changes")
    THEN [i \in 1..Len(self["changes"]) |->
             <<IF i = 1 THEN "SIMULATE>READCIN|" ELSE "SIMULATE>ADDCIN|">>
             \o self["changes"][i]]
    ELSE <<>>

\* for var, val in self.setvals: cmdtext.append(f"SIMULATE>SETVAL|{var}={val}\n")
SetvalLines(self) ==
    IF Has(self, "setvals")
    THEN [i \in 1..Len(self["setvals"]) |->
             <<"SIMULATE>SETVAL|", self["setvals"][i][1], "=",
               Format(self["setvals"][i][2])>>]
    ELSE <<>>

write_scriptMut(self) ==
    <<<<"SPECIAL>NOINTERACTION">>, <<"SPECIAL>LOADMODEL|">> \o self["model"]>>
    \o SettingLines(self) \o DataLines(self) \o ChangeLines(self)
    \o <<<<>>,
         <<"SIMULATE>RUNNAME|">> \o self["runname"],
         <<"SIMULATE>REPORT|1">>>>
    \o SetvalLines(self)
    \o <<<<"MENU>">> \o self["runcmd"],
         <<"MENU>">> \o self["savecmd"] \o <<"|">>,
         <<"SPECIAL>CLEARRUNS">>,
         <<"MENU>EXIT">>>>
\* Script.write_script: the lines of cmdtext, each without its "\n" (the blank
\* line is <<>>).
write_script(self) ==
    <<<<"SPECIAL>NOINTERACTION">>, <<"SPECIAL>LOADMODEL|">> \o self["model"]>>
    \o SettingLines(self) \o DataLines(self) \o ChangeLines(self)
    \o SetvalLines(self)
    \o <<<<>>,
         <<"SIMULATE>RUNNAME|">> \o self["runname"],
         <<"SIMULATE>REPORT|1">>,
         <<"MENU>">> \o self["runcmd"],
         <<"MENU>">> \o self["savecmd"] \o <<"|">>,
         <<"SPECIAL>CLEARRUNS">>,
         <<"MENU>EXIT">>>>

\* ------------------------------------------------------------------ state
VARIABLES
    vengine,       \* compile_script's switch: run_vengine_script or run_vensim_script
    timelimit,     \* run_vengine_script's timelimit (NoLimit: None)
    check_funcs,   \* the check functions in effect, in registration order
    maxattempts,   \* run_vensim_script's maxattempts
    pc,            \* the supervisor's position
    procState,     \* the simulator process: "none", "running", "exited", "killed"
    exitCode,      \* the exit code the operating system holds for the process
    returncode,    \* proc.returncode
    attempts,      \* simulator launches so far
    presses,       \* press('enter') calls since the latest launch
    killed,        \* proc.kill() was called on the latest process
    invoked,       \* check functions called in the latest attempt, in call order
    results,       \* what each of them returned or raised
    outextExists,  \* ./{scriptname}{outext} exists
    timelag,       \* time.time() - getmtime of that file, in ticks
    outFile,       \* ./{scriptname}.out
    repFile,       \* ./{scriptname}.rep
    vdfFiles,      \* which of ./{scriptname}.vdf and .vdfx exist
    logged,        \* lines appended to the logfile since the latest launch
    retval,        \* the value returned (read when pc = "returned")
    exc,           \* the exception surfaced to the caller (pc = "raised")
    call,          \* the arguments of a library call made outside a supervisor
    script,        \* the Script object (NoScript before it is constructed)
    cmdtext,       \* the lines write_script wrote to {runname}.cmd
    logfile,       \* the lines of the shared logfile
    writers,       \* per concurrent write_log call: its line and how far it is
    cwd,           \* os.getcwd(), as the path below the directory of the caller
    disk,          \* the text files a widget reads and writes, by name
    extBy,         \* the launch whose process wrote ./{scriptname}{outext}, where
                   \* the origin of that file is followed (0: none of them)
    outBy          \* the launch whose process wrote ./{scriptname}.out, where the
                   \* origin of that file is followed (0: none of them)

vars == <<vengine, timelimit, check_funcs, maxattempts, pc, procState, exitCode,
          returncode, attempts, presses, killed, invoked, results, outextExists,
          timelag, outFile, repFile, vdfFiles, logged, retval, exc, call, script,
          cmdtext, logfile, writers, cwd, disk, extBy,
          outBy>>

\* What the simulator owns, what the supervisor's bookkeeping is, and the
\* parameters of the call.  The supervisors leave the Script object, its
\* command file and the shared logfile as they find them (their own log lines
\* are kept per attempt in `logged`).
library == <<call, script, cmdtext, logfile, writers, cwd, disk>>
params == <<vengine, timelimit, check_funcs, maxattempts, library>>
files == <<outFile, repFile, vdfFiles>>
heartbeat == <<outextExists, timelag, extBy>>
process == <<procState, exitCode>>
attempt == <<presses, killed, invoked, results>>
outcome == <<retval, exc>>

\* No library call is under way beside the supervisor: the Script object is
\* not looked at again once compile_script has passed its runname on.
NoCall == <<>>
NoScript == <<>>
\* The working directory the caller is in.
Home == <<>>
\* No widget is at work on a file.
NoDisk == <<>>
NoLibrary ==
    /\ call = NoCall
    /\ script = NoScript
    /\ cmdtext = <<>>
    /\ logfile = <<>>
    /\ writers = <<>>
    /\ cwd = Home
    /\ disk = NoDisk

\* timelimit=None
NoLimit == 0
\* The origin of the .out file is not followed in this behaviour.
Untracked == 0 - 1
MaxLag == MaxLimit + 1

\* The default check list (vst.py:237) and the lists callers register.
DefaultChecks == <<"check_restarts", "check_zeroes">>
CheckLists == {<<>>,
               <<"check_output">>,
               <<"check_zeroes", "check_restarts", "check_output">>,
               <<"check_payoffs", "check_output">>}

EffectiveChecksMut(fs) == fs
\* if not check_funcs: the default list takes the place of an empty one.
EffectiveChecks(fs) == IF fs = <<>> THEN DefaultChecks ELSE fs

Entry ==
    /\ vengine \in BOOLEAN
    /\ timelimit \in IF vengine THEN {NoLimit} \cup 1..MaxLimit ELSE {NoLimit}
    /\ check_funcs \in IF vengine THEN {EffectiveChecks(fs) : fs \in CheckLists}
                       ELSE {<<>>}
    /\ maxattempts \in IF vengine THEN {0} ELSE 0..MaxAttempts
    /\ pc = IF vengine THEN "spawn" ELSE "vs_loop"
    /\ procState = "none"
    /\ exitCode = None
    /\ returncode = None
    /\ attempts = 0
    /\ presses = 0
    /\ killed = FALSE
    /\ invoked = <<>>
    /\ results = <<>>
    /\ outextExists \in BOOLEAN
    /\ timelag = IF outextExists THEN MaxLag ELSE 0
    /\ outFile \in {NoFile, GoodOut}
    /\ repFile = NoFile
    /\ vdfFiles = {}
    /\ logged = IF vengine THEN <<<<"Initialising">>>> ELSE <<>>
    /\ retval = 0
    /\ exc = ""
    /\ NoLibrary

\* The entry of either supervisor; the origin of the .out file is not followed.
Init == Entry /\ outBy = Untracked /\ extBy = Untracked

\* ------------------------------------------------- the simulator process
\* The simulator ends by itself (MENU>EXIT, a crash, an error popup closed).
SimExits ==
    /\ procState = "running"
    /\ \E code \in ExitCodes : exitCode' = code
    /\ procState' = "exited"
    /\ UNCHANGED <<params, outBy, pc, returncode, attempts, attempt, heartbeat, files,
                   logged, outcome>>

\* The simulator writes to ./{scriptname}{outext} (Vengine's .log, Vensim's .tab).
SimWritesOutext ==
    /\ procState = "running"
    /\ outextExists' = TRUE
    /\ timelag' = 0
    /\ extBy' = IF extBy = Untracked THEN extBy ELSE attempts
    /\ UNCHANGED <<params, outBy, pc, process, returncode, attempts, attempt, files,
                   logged, outcome>>

SimWritesOut ==
    /\ procState = "running"
    /\ outFile' \in OutFiles
    /\ outBy' = IF outBy = Untracked THEN outBy ELSE attempts
    /\ UNCHANGED <<params, pc, process, returncode, attempts, attempt, heartbeat,
                   repFile, vdfFiles, logged, outcome>>

SimWritesRep ==
    /\ procState = "running"
    /\ repFile' \in RepFiles
    /\ UNCHANGED <<params, outBy, pc, process, returncode, attempts, attempt, heartbeat,
                   outFile, vdfFiles, logged, outcome>>

\* The simulator saves its binary result, in its current format (.vdfx); a
\* directory with a .vdf of the older format is among those of ChecksSpec.
SimWritesVdf ==
    /\ procState = "running"
    /\ vdfFiles' = vdfFiles \cup {".vdfx"}
    /\ UNCHANGED <<params, outBy, pc, process, returncode, attempts, attempt, heartbeat,
                   outFile, repFile, logged, outcome>>

\* Wall-clock time passes without output to the heartbeat file.
Tick ==
    /\ vengine
    /\ procState = "running"
    /\ outextExists
    /\ timelag < MaxLag
    /\ timelag' = timelag + 1
    /\ UNCHANGED <<params, outBy, pc, process, returncode, attempts, attempt,
                   outextExists, extBy, files, logged, outcome>>

\* Whether the simulator shows the expiration popup at start-up: the module
\* note says that the newest Vengine no longer has it.
ExpirationPopup == FALSE

\* ---------------------------------------------------- run_vengine_script
\* proc = subprocess.Popen(...)
Spawn ==
    /\ pc = "spawn"
    /\ attempts < MaxAttempts
    /\ attempts' = attempts + 1
    /\ procState' = "running"
    /\ exitCode' = None
    /\ returncode' = None
    /\ presses' = 0
    /\ killed' = FALSE
    /\ invoked' = <<>>
    /\ results' = <<>>
    /\ logged' = <<>>
    /\ pc' = "settle"
    /\ UNCHANGED <<params, outBy, heartbeat, files, outcome>>

\* time.sleep(2); press('enter')
Settle ==
    /\ pc = "settle"
    /\ presses' = presses + 1
    /\ pc' = "wait"
    /\ UNCHANGED <<params, outBy, process, returncode, attempts, killed, invoked, results,
                   heartbeat, files, logged, outcome>>

\* proc.wait(timeout=timelimit) returns: the process has ended.
WaitReturns ==
    /\ pc = "wait"
    /\ procState = "exited"
    /\ returncode' = exitCode
    /\ pc' = "classify"
    /\ UNCHANGED <<params, outBy, process, attempts, attempt, heartbeat, files, logged,
                   outcome>>

ExpiresMut(limit) == limit >= NoLimit
\* Popen.wait(timeout): with timeout=None the wait has no deadline and
\* TimeoutExpired is never raised.
Expires(limit) == limit # NoLimit

WaitTimeoutMut ==
    /\ pc = "wait"
    /\ Expires(timelimit)
    /\ procState = "running"
    /\ presses <= MaxTimeouts
    /\ presses' = presses
    /\ pc' = "grace"
    /\ UNCHANGED <<params, outBy, process, returncode, attempts, killed, invoked, results,
                   heartbeat, files, logged, outcome>>
\* proc.wait(timeout=timelimit) raises TimeoutExpired: press('enter').
WaitTimeout ==
    /\ pc = "wait"
    /\ Expires(timelimit)
    /\ procState = "running"
    /\ presses <= MaxTimeouts
    /\ presses' = presses + 1
    /\ pc' = "grace"
    /\ UNCHANGED <<params, outBy, process, returncode, attempts, killed, invoked, results,
                   heartbeat, files, logged, outcome>>

\* proc.wait(3) returns: the bypass let the process end.
GraceReturns ==
    /\ pc = "grace"
    /\ procState = "exited"
    /\ returncode' = exitCode
    /\ pc' = "classify"
    /\ UNCHANGED <<params, outBy, process, attempts, attempt, heartbeat, files, logged,
                   outcome>>

GraceTimeoutMut ==
    /\ pc = "grace"
    /\ procState = "running"
    /\ logged' = Append(logged, <<"Checking for">>)
    /\ pc' = "wait"
    /\ UNCHANGED <<params, outBy, process, returncode, attempts, attempt, heartbeat, files,
                   outcome>>
\* proc.wait(3) raises TimeoutExpired: write_log("Checking for ...").
GraceTimeout ==
    /\ pc = "grace"
    /\ procState = "running"
    /\ logged' = Append(logged, <<"Checking for">>)
    /\ pc' = "heartbeat"
    /\ UNCHANGED <<params, outBy, process, returncode, attempts, attempt, heartbeat, files,
                   outcome>>

StalledMut(exists, lag, limit) == ~exists \/ ~(lag <= limit)
\* The run is judged stalled: getmtime raises FileNotFoundError, or the lag
\* is not below the time limit.
Stalled(exists, lag, limit) == ~exists \/ ~(lag < limit)

KillMut ==
    /\ killed' = FALSE
    /\ UNCHANGED process
    /\ returncode' = returncode
\* proc.kill(): a running process is terminated and stays unreaped; for a
\* process that has already ended, kill() either does nothing (returncode
\* stays None) or picks up the exit code the process ended with.
Kill ==
    /\ killed' = TRUE
    /\ IF procState = "running"
       THEN /\ procState' = "killed"
            /\ exitCode' = KilledCode
            /\ returncode' = returncode
       ELSE /\ UNCHANGED process
            /\ returncode' \in {returncode, exitCode}

ContinueMut ==
    /\ logged' = Append(logged, <<"continuing...">>)
    /\ pc' = "spawn"
    /\ UNCHANGED <<process, returncode, attempt>>
\* timelag < timelimit: write_log(... "continuing..."); continue
Continue ==
    /\ logged' = Append(logged, <<"continuing...">>)
    /\ pc' = "wait"
    /\ UNCHANGED <<process, returncode, attempt>>

HeartbeatCheckMut ==
    /\ pc = "heartbeat"
    /\ IF Stalled(outextExists, timelag, timelimit)
       THEN /\ logged' = Append(logged, <<"Calibration timed out!">>)
            /\ pc' = "classify"
            /\ UNCHANGED <<process, returncode, attempt>>
       ELSE Continue
    /\ UNCHANGED <<params, outBy, attempts, heartbeat, files, outcome>>
\* timelag = time.time() - os.path.getmtime(...) and the branch on it.
HeartbeatCheck ==
    /\ pc = "heartbeat"
    /\ IF Stalled(outextExists, timelag, timelimit)
       THEN /\ Kill
            /\ logged' = Append(logged, <<"Calibration timed out!">>)
            /\ pc' = "classify"
            /\ UNCHANGED <<presses, invoked, results>>
       ELSE Continue
    /\ UNCHANGED <<params, outBy, attempts, heartbeat, files, outcome>>

ClassifyMut ==
    /\ pc = "classify"
    /\ IF ~Accepted(returncode)
       THEN /\ logged' = Append(logged, <<"Vensim! Trying again...">>)
            /\ pc' = "spawn"
       ELSE /\ logged' = Append(logged, <<"Return code is", returncode>>)
            /\ pc' = "verify"
    /\ UNCHANGED <<params, outBy, process, returncode, attempts, attempt, heartbeat, files,
                   outcome>>
\* if not (proc.returncode == 0 or proc.returncode == 3221225477): ... continue
Classify ==
    /\ pc = "classify"
    /\ IF ~Accepted(returncode)
       THEN /\ logged' = logged \o <<<<"Return code is", returncode>>,
                                     <<"Vensim! Trying again...">>>>
            /\ pc' = "spawn"
       ELSE /\ logged' = Append(logged, <<"Return code is", returncode>>)
            /\ pc' = "verify"
    /\ UNCHANGED <<params, outBy, process, returncode, attempts, attempt, heartbeat, files,
                   outcome>>

\* The lines a check function writes to the log for the outcome r.
CheckLines(func, r) ==
    IF func = "check_payoffs" /\ ~IsException(r)
    THEN <<<<".OUT and .REP payoff difference is">>>>
         \o (IF r = "False" THEN <<<<func, "failed">>>> ELSE <<>>)
    ELSE IF r = "False" THEN <<<<func, "failed">>>>
    ELSE <<>>

RECURSIVE ChecksLogged(_, _)
ChecksLogged(fs, rs) ==
    IF rs = <<>> THEN <<>>
    ELSE CheckLines(Head(fs), Head(rs)) \o ChecksLogged(Tail(fs), Tail(rs))

\* The exception that ended the comprehension, "" if none did.
Raised(rs) ==
    IF rs # <<>> /\ IsException(rs[Len(rs)]) THEN rs[Len(rs)] ELSE ""

CaughtNone(e) == FALSE
CaughtAll(e) == e # ""
\* except FileNotFoundError
Caught(e) == e = "FileNotFoundError"

\* try: if all([func(scriptname, logfile) for func in check_funcs]): break
\* except FileNotFoundError: write_log("Outfile not found! ..."); pass
Verify ==
    /\ pc = "verify"
    /\ LET c == Comprehension(check_funcs, outFile, repFile, vdfFiles)
           e == Raised(c.results)
           lines == ChecksLogged(c.invoked, c.results)
       IN  /\ invoked' = c.invoked
           /\ results' = c.results
           /\ IF e = ""
              THEN /\ pc' = IF All(c.results) THEN "final" ELSE "spawn"
                   /\ logged' = logged \o lines
                   /\ exc' = exc
              ELSE IF Caught(e)
              THEN /\ pc' = "spawn"
                   /\ logged' = logged \o lines \o <<<<"Outfile not found!">>>>
                   /\ exc' = exc
              ELSE /\ pc' = "raised"
                   /\ logged' = logged \o lines
                   /\ exc' = e
    /\ UNCHANGED <<params, outBy, process, returncode, attempts, presses, killed,
                   heartbeat, files, retval>>

\* if os.path.exists(f"./{scriptname}.out"): payoffvalue = read_payoff(...);
\* write_log(...); return payoffvalue
\* return 0
ExtractPayoff ==
    IF outFile.exists
    THEN LET p == read_payoff(outFile, ".out")
         IN  IF p.exc # ""
             THEN /\ pc' = "raised"
                  /\ exc' = p.exc
                  /\ UNCHANGED <<retval, logged>>
             ELSE /\ pc' = "returned"
                  /\ retval' = p.val
                  /\ logged' = Append(logged, <<"Payoff for", "calibration complete!">>)
                  /\ exc' = exc
    ELSE /\ pc' = "returned"
         /\ retval' = 0
         /\ UNCHANGED <<exc, logged>>

\* run_vengine_script after its loop: time.sleep(2), then the payoff.
Final ==
    /\ pc = "final"
    /\ vengine
    /\ ExtractPayoff
    /\ UNCHANGED <<params, outBy, process, returncode, attempts, attempt, heartbeat, files>>

\* ----------------------------------------------------- run_vensim_script
RemoveOutextMut == UNCHANGED heartbeat
\* if os.path.exists(f"./{scriptname}{outext}"): os.remove(...)
RemoveOutext ==
    /\ outextExists' = FALSE
    /\ timelag' = 0
    /\ extBy' = IF extBy = Untracked THEN extBy ELSE 0

VsLoopMut ==
    /\ pc = "vs_loop"
    /\ IF attempts <= maxattempts
       THEN /\ attempts' = attempts + 1
            /\ RemoveOutext
            /\ procState' = "running"
            /\ exitCode' = None
            /\ returncode' = None
            /\ pc' = "vs_run"
       ELSE /\ pc' = "final"
            /\ UNCHANGED <<attempts, heartbeat, process, returncode>>
    /\ UNCHANGED <<params, outBy, attempt, files, logged, outcome>>
\* while attempts < maxattempts: attempts += 1; remove the old output file;
\* subprocess.run(...) starts the simulator.
VsLoop ==
    /\ pc = "vs_loop"
    /\ IF attempts < maxattempts
       THEN /\ attempts' = attempts + 1
            /\ RemoveOutext
            /\ procState' = "running"
            /\ exitCode' = None
            /\ returncode' = None
            /\ pc' = "vs_run"
       ELSE /\ pc' = "final"
            /\ UNCHANGED <<attempts, heartbeat, process, returncode>>
    /\ UNCHANGED <<params, outBy, attempt, files, logged, outcome>>

VsRunReturnsMut ==
    /\ pc = "vs_run"
    /\ procState = "exited"
    /\ returncode' = exitCode
    /\ IF outextExists
       THEN /\ pc' = "final"
            /\ logged' = logged
       ELSE /\ pc' = "vs_loop"
            /\ logged' = Append(logged, <<"Help!", "is being repressed!">>)
    /\ UNCHANGED <<params, outBy, process, attempts, attempt, heartbeat, files, outcome>>
\* subprocess.run(..., check=True) ends: CalledProcessError on a non-zero
\* exit code, else the test for the output file.
VsRunReturns ==
    /\ pc = "vs_run"
    /\ procState = "exited"
    /\ returncode' = exitCode
    /\ IF exitCode # "0"
       THEN /\ pc' = "vs_loop"
            /\ logged' = logged
       ELSE IF outextExists
       THEN /\ pc' = "final"
            /\ logged' = logged
       ELSE /\ pc' = "vs_loop"
            /\ logged' = Append(logged, <<"Help!", "is being repressed!">>)
    /\ UNCHANGED <<params, outBy, process, attempts, attempt, heartbeat, files, outcome>>

\* run_vensim_script after its loop: the payoff.
VsFinal ==
    /\ pc = "final"
    /\ ~vengine
    /\ ExtractPayoff
    /\ UNCHANGED <<params, outBy, process, returncode, attempts, attempt, heartbeat, files>>

\* ---------------------------------------------------------- specification
Next ==
    \/ SimExits
    \/ SimWritesOutext
    \/ SimWritesOut
    \/ SimWritesRep
    \/ SimWritesVdf
    \/ Tick
    \/ Spawn
    \/ Settle
    \/ WaitReturns
    \/ WaitTimeout
    \/ GraceReturns
    \/ GraceTimeout
    \/ HeartbeatCheck
    \/ Classify
    \/ Verify
    \/ Final
    \/ VsLoop
    \/ VsRunReturns
    \/ VsFinal

Spec == Init /\ [][Next]_vars

\* run_vengine_script alone, with the origin of ./{scriptname}.out followed:
\* no process of this invocation has written it at entry.
TrackedInit ==
    /\ Entry
    /\ vengine
    /\ check_funcs \in {DefaultChecks, <<"check_output">>}
    /\ outBy = 0
    /\ extBy = Untracked

VengineNext ==
    \/ SimExits
    \/ SimWritesOutext
    \/ SimWritesOut
    \/ SimWritesRep
    \/ SimWritesVdf
    \/ Tick
    \/ Spawn
    \/ Settle
    \/ WaitReturns
    \/ WaitTimeout
    \/ GraceReturns
    \/ GraceTimeout
    \/ HeartbeatCheck
    \/ Classify
    \/ Verify
    \/ Final

TrackedSpec == TrackedInit /\ [][VengineNext]_vars

\* run_vengine_script under a fair scheduler and a simulator that, unless it
\* ends, stops writing to the heartbeat file: by the time the supervisor has
\* sent MaxTimeouts keystrokes the file is written no more.
Quiet == presses >= MaxTimeouts

QuietWritesOutext == ~Quiet /\ SimWritesOutext

\* proc.wait(timeout=timelimit) expires only after timelimit of wall-clock
\* time: a heartbeat file that was not written during the wait is then at
\* least that old.
TimedOut ==
    /\ (Quiet /\ outextExists) => timelag >= timelimit
    /\ WaitTimeout

Supervisor ==
    \/ Spawn
    \/ Settle
    \/ WaitReturns
    \/ TimedOut
    \/ GraceReturns
    \/ GraceTimeout
    \/ HeartbeatCheck
    \/ Classify
    \/ Verify
    \/ Final

LiveInit ==
    /\ Init
    /\ vengine
    /\ check_funcs = DefaultChecks

LiveNext ==
    \/ SimExits
    \/ QuietWritesOutext
    \/ SimWritesOut
    \/ Tick
    \/ Supervisor

\* The supervisor's thread is scheduled and the wall clock advances; nothing
\* makes the simulator end.
LiveSpec ==
    /\ LiveInit
    /\ [][LiveNext]_vars
    /\ WF_vars(Supervisor)
    /\ WF_vars(Tick)

\* run_vensim_script alone, as compile_script calls it with vengine=False.
\* subprocess.run blocks until the simulator has ended, and the simulator is
\* taken to end with some exit code; the supervisor's own steps are not held up.
VsInit == Init /\ ~vengine

VsNext ==
    \/ SimExits
    \/ SimWritesOutext
    \/ SimWritesOut
    \/ SimWritesRep
    \/ SimWritesVdf
    \/ VsLoop
    \/ VsRunReturns
    \/ VsFinal

\* run_vensim_script where the origin of the designated output file is
\* followed: a file that is there at the call is of an earlier run.
VsTrackedInit ==
    /\ Entry
    /\ ~vengine
    /\ outBy = Untracked
    /\ extBy = 0

VsTrackedSpec == VsTrackedInit /\ [][VsNext]_vars

VsSpec ==
    /\ VsInit
    /\ [][VsNext]_vars
    /\ WF_vars(SimExits)
    /\ WF_vars(VsLoop)
    /\ WF_vars(VsRunReturns)
    /\ WF_vars(VsFinal)

TypeOK ==
    /\ vengine \in BOOLEAN
    /\ timelimit \in 0..MaxLimit
    /\ pc \in {"spawn", "settle", "wait", "grace", "heartbeat", "classify", "verify",
               "final", "returned", "raised", "vs_loop", "vs_run"}
    /\ procState \in {"none", "running", "exited", "killed"}
    /\ exitCode \in ExitCodes \cup {None}
    /\ returncode \in ExitCodes \cup {None}
    /\ attempts \in 0..MaxAttempts
    /\ presses \in 0..(MaxTimeouts + 1)
    /\ killed \in BOOLEAN
    /\ Len(invoked) = Len(results)
    /\ outextExists \in BOOLEAN
    /\ timelag \in 0..MaxLag
    /\ outFile \in OutFiles \cup {NoFile}
    /\ outBy \in {Untracked} \cup 0..MaxAttempts
    /\ extBy = Untracked
    /\ repFile \in RepFiles \cup {NoFile}
    /\ vdfFiles \subseteq VdfExts

\* ------------------------------------------------- the check functions
\* One check function applied to the files of a finished attempt: the
\* supervisor stands before the checks of an attempt whose process ended with
\* exit code 0, the function is the only one registered, and Verify calls it.
\* The working directories it is given:

\* Bounds of parameter lines, below, at and above 0, and values, 0 or not.
BoundVals == {-1, 0, 1}
ParamVals == {0, 1}
ParamLines ==
    {Line(TRUE, <<lo, ParamName, v, up>>) : lo \in BoundVals, v \in ParamVals,
                                            up \in BoundVals}
    \cup {Line(TRUE, <<lo, ParamName, v>>) : lo \in BoundVals, v \in ParamVals}
    \cup {Line(FALSE, <<ParamName, v, up>>) : v \in ParamVals, up \in BoundVals}
    \cup {Line(FALSE, <<ParamName, v>>) : v \in ParamVals}
ParamSeqs == UNION {[1..k -> ParamLines] : k \in 0..MaxParams}
ZeroesInputs ==
    {[func |-> "check_zeroes", out |-> File(TRUE, GoodOut.lines, GoodOut.after,
                                            GoodOut.restart, ps),
      rep |-> NoFile, vdf |-> {}] : ps \in ParamSeqs}

\* Counts as Vensim writes them: decimal numerals without a leading zero.
DigitSet == {0, 1, 5, 6}
Numerals ==
    {d \in UNION {[1..k -> DigitSet] : k \in 1..MaxDigits} : Len(d) = 1 \/ d[1] # 0}
RestartsInputs ==
    {[func |-> "check_restarts",
      out |-> File(TRUE, GoodOut.lines, a, r, GoodOut.params),
      rep |-> NoFile, vdf |-> {}] :
        a \in {<<>>} \cup {<<n>> : n \in Numerals},
        r \in {<<>>} \cup {<<<<n>>>> : n \in Numerals}}

\* Payoffs: 0, the threshold and its double, and the hundredths from 10.00 up.
PayoffVals == {0, Threshold, 2 * Threshold} \cup (1000..(1000 + MaxSpread))
PayoffsInputs ==
    {[func |-> "check_payoffs",
      out |-> File(TRUE, <<<<7>>, <<o>>>>, GoodOut.after, GoodOut.restart,
                   GoodOut.params),
      rep |-> File(TRUE, <<<<r>>>>, <<>>, <<>>, <<>>),
      vdf |-> {}] : o \in PayoffVals, r \in PayoffVals}

OutputInputs ==
    {[func |-> "check_output", out |-> o, rep |-> r, vdf |-> v] :
        o \in {NoFile, GoodOut}, r \in {NoFile, GoodRep}, v \in SUBSET VdfExts}

CheckInputs == ZeroesInputs \cup RestartsInputs \cup PayoffsInputs \cup OutputInputs

ChecksInit ==
    /\ vengine = TRUE
    /\ timelimit = NoLimit
    /\ maxattempts = 0
    /\ pc = "verify"
    /\ procState = "exited"
    /\ exitCode = "0"
    /\ returncode = "0"
    /\ attempts = 1
    /\ presses = 1
    /\ killed = FALSE
    /\ invoked = <<>>
    /\ results = <<>>
    /\ outextExists = FALSE
    /\ timelag = 0
    /\ outBy = Untracked
    /\ extBy = Untracked
    /\ logged = <<<<"Return code is", "0">>>>
    /\ retval = 0
    /\ exc = ""
    /\ NoLibrary
    /\ \E in \in CheckInputs :
          /\ check_funcs = <<in.func>>
          /\ outFile = in.out
          /\ repFile = in.rep
          /\ vdfFiles = in.vdf

ChecksNext == Verify

ChecksSpec == ChecksInit /\ [][ChecksNext]_vars

\* ------------------------------------- Script: construction and write_script
\* The attributes simcontrol may give beside the model.
Optional == {"payoff", "sensitivity", "optparm", "savelist", "senssavelist",
             "data", "changes"}

\* controlfile['simcontrol'] with the given keys and n change files.
SimControl(keys, n) ==
    [k \in keys \cup {"model"} |->
        IF k = "model" THEN <<"m", ".mdl">>
        ELSE IF k = "data" THEN <<<<"d1", ".vdf">>, <<"d2", ".vdf">>>>
        ELSE IF k = "changes" THEN [i \in 1..n |-> <<"c", Format(i), ".cin">>]
        ELSE <<k, ".txt">>]

\* A control file without the key runcmd or savecmd.
NoEntry == "no entry"
ControlFile(sc, runcmd, savecmd) ==
    [k \in {"basename", "simcontrol"}
           \cup (IF runcmd = NoEntry THEN {} ELSE {"runcmd"})
           \cup (IF savecmd = NoEntry THEN {} ELSE {"savecmd"}) |->
        IF k = "basename" THEN "base"
        ELSE IF k = "simcontrol" THEN sc
        ELSE IF k = "runcmd" THEN runcmd
        ELSE savecmd]

NoSfxs == [k \in {} |-> ""]
SetvalPairs == {<<"a", 0>>, <<"b", 1>>}
SetvalLists == UNION {[1..n -> SetvalPairs] : n \in 0..MaxSetvals}
ChgEntries == {Chg("str", <<"x.cin">>, ""),
               Chg("pair", <<"_n">>, "_s"),
               Chg("list", <<"_n1", "_n2">>, "_t")}
ChgLists == UNION {[1..n -> ChgEntries] : n \in 0..MaxChglist}
CmdEntries == {NoEntry, "", "RUN|custom"}

ScriptCall(controlfile, sfxs, chglist, setvals, simtype) ==
    [controlfile |-> controlfile, name |-> "_r1", sfxs |-> sfxs,
     chglist |-> chglist, setvals |-> setvals, simtype |-> simtype,
     loaded |-> controlfile]

\* The constructor calls explored: every combination of optional attributes
\* with every list of overrides; every chglist on every number of control-file
\* change files; every run type with every runcmd / savecmd entry.
ScriptCalls ==
    {ScriptCall(ControlFile(SimControl(keys, n), "", ""), NoSfxs, <<>>, sv, "o") :
        keys \in SUBSET Optional, n \in 0..MaxChanges, sv \in SetvalLists}
    \cup
    {ScriptCall(ControlFile(SimControl(Optional, n), "", ""), sfxs, cl,
                <<<<"a", 0>>>>, "o") :
        n \in 0..MaxChanges, cl \in ChgLists,
        sfxs \in {NoSfxs, [k \in {"model", "unused"} |-> "_v2"]}}
    \cup
    {ScriptCall(ControlFile(SimControl(Optional, 1), rc, sc), NoSfxs, <<>>,
                <<>>, simtype) :
        rc \in CmdEntries, sc \in CmdEntries, simtype \in {"o", "r", "s", "sf"}}

\* The state in which one of the library calls is about to be made, at
\* the position `at`, with no simulator and no supervisor at work.
Called(calls, at) ==
    /\ vengine = TRUE
    /\ timelimit = NoLimit
    /\ check_funcs = DefaultChecks
    /\ maxattempts = 0
    /\ pc = at
    /\ procState = "none"
    /\ exitCode = None
    /\ returncode = None
    /\ attempts = 0
    /\ presses = 0
    /\ killed = FALSE
    /\ invoked = <<>>
    /\ results = <<>>
    /\ outextExists = FALSE
    /\ timelag = 0
    /\ outFile = NoFile
    /\ repFile = NoFile
    /\ vdfFiles = {}
    /\ outBy = Untracked
    /\ extBy = Untracked
    /\ logged = <<>>
    /\ retval = 0
    /\ exc = ""
    /\ call \in calls
    /\ script = NoScript
    /\ cmdtext = <<>>
    /\ logfile = <<>>
    /\ writers = <<>>
    /\ cwd = Home
    /\ disk = NoDisk

ScriptInit == Called(ScriptCalls, "construct")

supervisor == <<vengine, timelimit, check_funcs, maxattempts, procState, exitCode,
                returncode, attempts, attempt, heartbeat, files, outBy>>

\* Script(controlfile, name, logfile, sfxs, chglist, setvals, simtype)
Construct ==
    /\ pc = "construct"
    /\ LET s == Script(call.controlfile, call.name, call.sfxs, call.chglist,
                       call.setvals, call.simtype)
       IN  IF s.exc # ""
           THEN /\ pc' = "raised"
                /\ exc' = s.exc
                /\ script' = script
           ELSE /\ pc' = "write"
                /\ exc' = exc
                /\ script' = s.val
    /\ logged' = logged \o ScriptLogged(call.controlfile)
    /\ call' = [call EXCEPT !.controlfile =
                    ControlAfter(call.controlfile, call.name, call.sfxs,
                                 call.chglist, call.setvals, call.simtype)]
    /\ UNCHANGED <<supervisor, retval, cmdtext, logfile, writers, cwd, disk>>

\* self.write_script()
WriteScript ==
    /\ pc = "write"
    /\ cmdtext' = write_script(script)
    /\ pc' = "written"
    /\ UNCHANGED <<supervisor, logged, outcome, call, script, logfile, writers, cwd, disk>>

ScriptNext == Construct \/ WriteScript

ScriptSpec == ScriptInit /\ [][ScriptNext]_vars

\* One control file, loaded once (call.loaded is what the loader read), from
\* which Script after Script is constructed with its own suffixes, change
\* list and overrides; `logged` has one line per construction.
Reconstruct ==
    /\ pc = "construct"
    /\ Len(logged) < MaxScripts
    /\ \E sfxs \in {NoSfxs, [k \in {"model", "unused"} |-> "_v2"]},
          chglist \in ChgLists, setvals \in {<<>>, <<<<"a", 0>>>>} :
          LET s == Script(call.controlfile, call.name, sfxs, chglist, setvals,
                          call.simtype)
          IN  /\ script' = IF s.exc # "" THEN script ELSE s.val
              /\ exc' = s.exc
              /\ call' = [call EXCEPT
                     !.controlfile = ControlAfter(call.controlfile, call.name, sfxs,
                                                  chglist, setvals, call.simtype),
                     !.sfxs = sfxs, !.chglist = chglist, !.setvals = setvals]
    /\ logged' = logged \o ScriptLogged(call.controlfile)
    /\ pc' = "construct"
    /\ UNCHANGED <<supervisor, retval, cmdtext, logfile, writers, cwd, disk>>

\* The control files reused: with every number of change files, complete,
\* without a list of change files, or without a savelist.
ReuseCalls ==
    {ScriptCall(ControlFile(SimControl(keys, n), "", ""), NoSfxs, <<>>, <<>>, "o") :
        keys \in {Optional, Optional \ {"changes"}, Optional \ {"savelist"}},
        n \in 0..MaxChanges}

ReuseInit == Called(ReuseCalls, "construct")

ReuseSpec == ReuseInit /\ [][Reconstruct]_vars

\* --------------------------------------------- read_payoff and read_outvals
\* Files given to read_payoff: up to MaxLines lines, the i-th with no, one or
\* two numeric tokens that tell the line and the position.
TokenLines(i) == {<<>>, <<1000 + i>>, <<1010 + i, 1020 + i>>}
PayoffFiles ==
    {NoFile} \cup
    UNION {{File(TRUE, ls, <<>>, <<>>, <<>>) :
               ls \in {l \in [1..k -> UNION {TokenLines(i) : i \in 1..k}] :
                          \A i \in 1..k : l[i] \in TokenLines(i)}} : k \in 0..MaxLines}
Extensions == {".rep", ".out", ".tab"}

\* Lines given to read_outvals: control lines and parameter lines with and
\* without either bound, of two names and two values.
RowLines ==
    {Row(TRUE, Line(FALSE, <<>>))}
    \cup {Row(FALSE, Line(TRUE, <<-1, nm, v, 5>>)) : nm \in {ParamName, ParamName + 1}, v \in ParamVals}
    \cup {Row(FALSE, Line(TRUE, <<-1, nm, v>>)) : nm \in {ParamName, ParamName + 1}, v \in ParamVals}
    \cup {Row(FALSE, Line(FALSE, <<nm, v, 5>>)) : nm \in {ParamName, ParamName + 1}, v \in ParamVals}
    \cup {Row(FALSE, Line(FALSE, <<nm, v>>)) : nm \in {ParamName, ParamName + 1}, v \in ParamVals}
RowSeqs == UNION {[1..k -> RowLines] : k \in 0..MaxRows}

ReadCalls ==
    {[func |-> "read_payoff", file |-> f, ext |-> e, exists |-> f.exists, rows |-> <<>>] :
        f \in PayoffFiles, e \in Extensions}
    \cup
    {[func |-> "read_outvals", file |-> NoFile, ext |-> ".out", exists |-> e, rows |-> rs] :
        e \in BOOLEAN, rs \in RowSeqs}

ReadInit ==
    /\ vengine = TRUE
    /\ timelimit = NoLimit
    /\ check_funcs = DefaultChecks
    /\ maxattempts = 0
    /\ pc = "read"
    /\ procState = "none"
    /\ exitCode = None
    /\ returncode = None
    /\ attempts = 0
    /\ presses = 0
    /\ killed = FALSE
    /\ invoked = <<>>
    /\ results = <<>>
    /\ outextExists = FALSE
    /\ timelag = 0
    /\ outFile = NoFile
    /\ repFile = NoFile
    /\ vdfFiles = {}
    /\ outBy = Untracked
    /\ extBy = Untracked
    /\ logged = <<>>
    /\ retval = 0
    /\ exc = ""
    /\ call \in ReadCalls
    /\ script = NoScript
    /\ cmdtext = <<>>
    /\ logfile = <<>>
    /\ writers = <<>>
    /\ cwd = Home
    /\ disk = NoDisk

\* read_payoff(outfile, logfile)
ReadPayoff ==
    /\ pc = "read"
    /\ call.func = "read_payoff"
    /\ logged' = logged \o Warned(call.ext)
    /\ LET p == read_payoff(call.file, call.ext)
       IN  IF p.exc # ""
           THEN pc' = "raised" /\ exc' = p.exc /\ retval' = retval
           ELSE pc' = "returned" /\ retval' = p.val /\ exc' = exc
    /\ UNCHANGED <<supervisor, library>>

\* read_outvals(filename)
ReadOutvals ==
    /\ pc = "read"
    /\ call.func = "read_outvals"
    /\ IF ~call.exists
       THEN pc' = "raised" /\ exc' = "FileNotFoundError" /\ retval' = retval
       ELSE /\ pc' = "returned"
            /\ retval' = read_outvals(File(TRUE, <<>>, <<>>, <<>>, Params(call.rows)))
            /\ exc' = exc
    /\ UNCHANGED <<supervisor, library, logged>>

ReadNext == ReadPayoff \/ ReadOutvals

ReadSpec == ReadInit /\ [][ReadNext]_vars

\* ------------------------------------------------- write_log, two supervisors
\* The supervisors that share the logfile.
Supervisors == {1, 2}
\* The k-th string supervisor w logs, with its "\n": the characters tell the
\* supervisor and the call, the lengths of the two supervisors' lines differ.
LogLine(w, k) ==
    [i \in 1..w |-> <<<<"a", "b", "c">>, <<"x", "y", "z">>>>[w][k]] \o <<"\n">>

\* The file after data is written at offset pos (0 <= pos <= Len(text)): what
\* was there is overwritten, the file grows as far as the data reaches.
WriteAt(text, pos, data) ==
    LET end == IF pos + Len(data) > Len(text) THEN pos + Len(data) ELSE Len(text)
    IN  [i \in 1..end |->
            IF i > pos /\ i <= pos + Len(data) THEN data[i - pos] ELSE text[i]]

\* A write_log call is under way: the file is open, its line not yet written.
MidCall(w) == writers[w].pc # "idle"

\* The hosts: on "posix" the write of a file opened with 'a' goes to the end
\* of the file in one step (O_APPEND); on "nt" the C runtime first seeks to
\* the end and then writes, and another process may write in between.
Hosts == {"posix", "nt"}

LogInit ==
    /\ vengine = TRUE
    /\ timelimit = NoLimit
    /\ check_funcs = DefaultChecks
    /\ maxattempts = 0
    /\ pc = "log"
    /\ procState = "none"
    /\ exitCode = None
    /\ returncode = None
    /\ attempts = 0
    /\ presses = 0
    /\ killed = FALSE
    /\ invoked = <<>>
    /\ results = <<>>
    /\ outextExists = FALSE
    /\ timelag = 0
    /\ outFile = NoFile
    /\ repFile = NoFile
    /\ vdfFiles = {}
    /\ outBy = Untracked
    /\ extBy = Untracked
    /\ logged = <<>>
    /\ retval = 0
    /\ exc = ""
    /\ call \in {[func |-> "write_log", host |-> h, strings |-> n] :
                    h \in Hosts, n \in 1..MaxLogged}
    /\ script = NoScript
    /\ cmdtext = <<>>
    /\ cwd = Home
    /\ disk = NoDisk
    /\ logfile \in {<<>>, <<"e", "\n">>}
    /\ writers = [w \in Supervisors |->
                     [pc |-> "idle", done |-> 0, pos |-> 0, alone |-> TRUE]]

idle == <<supervisor, pc, logged, outcome, call, script, cmdtext, cwd, disk>>

\* with open(logfile, 'a') as f:
LogOpen(w) ==
    /\ writers[w].pc = "idle"
    /\ writers[w].done < call.strings
    /\ writers' = [v \in Supervisors |->
                      IF v = w
                      THEN [writers[w] EXCEPT !.pc = "open",
                                              !.alone = \A u \in Supervisors \ {w} : ~MidCall(u)]
                      ELSE IF MidCall(v) THEN [writers[v] EXCEPT !.alone = FALSE]
                      ELSE writers[v]]
    /\ UNCHANGED <<idle, logfile>>

\* f.write(string + "\n") and the close that flushes it, where the write of
\* a file in append mode is one step.
LogAppend(w) ==
    /\ call.host = "posix"
    /\ writers[w].pc = "open"
    /\ logfile' = logfile \o LogLine(w, writers[w].done + 1)
    /\ writers' = [writers EXCEPT ![w].pc = "idle", ![w].done = @ + 1]
    /\ UNCHANGED idle

\* The same where the write of a file in append mode is a seek to the end ...
LogSeek(w) ==
    /\ call.host = "nt"
    /\ writers[w].pc = "open"
    /\ writers' = [writers EXCEPT ![w].pc = "sought", ![w].pos = Len(logfile)]
    /\ UNCHANGED <<idle, logfile>>

LogWriteMut(w) ==
    /\ writers[w].pc = "sought"
    /\ logfile' = WriteAt(logfile, 0, LogLine(w, writers[w].done + 1))
    /\ writers' = [writers EXCEPT ![w].pc = "idle", ![w].done = @ + 1]
    /\ UNCHANGED idle
\* ... followed by the write at the offset found.
LogWrite(w) ==
    /\ writers[w].pc = "sought"
    /\ logfile' = WriteAt(logfile, writers[w].pos, LogLine(w, writers[w].done + 1))
    /\ writers' = [writers EXCEPT ![w].pc = "idle", ![w].done = @ + 1]
    /\ UNCHANGED idle

LogNext ==
    \/ \E w \in Supervisors : LogOpen(w)
    \/ \E w \in Supervisors : LogAppend(w)
    \/ \E w \in Supervisors : LogSeek(w)
    \/ \E w \in Supervisors : LogWrite(w)

LogSpec == LogInit /\ [][LogNext]_vars

\* ---------------------------------------------------------- compile_script
\* subdir=None, a subdirectory, a subdirectory of a subdirectory
\* (os.makedirs creates every level).
NoSubdir == <<>>
Subdirs == {NoSubdir, <<"sub">>, <<"runs", "sub">>}

\* os.chdir('..')
Parent(dir) ==
    IF dir # <<>> /\ dir[Len(dir)] # ".."
    THEN SubSeq(dir, 1, Len(dir) - 1)
    ELSE Append(dir, "..")

\* The Script objects compile_script is called on: their setvals are pairs,
\* or hold an entry that is no pair.
CompiledScripts ==
    {Script(ControlFile(SimControl(Optional, 1), "", ""), "_r1", NoSfxs, <<>>,
            sv, "o").val : sv \in {<<>>, <<<<"a", 0>>>>, <<<<"a">>>>}}

\* script.compile_script(vensimpath, logfile, vengine, subdir); staged: the
\* files the Script names lie in the parent of the subdirectory.
CompileInit ==
    /\ vengine \in BOOLEAN
    /\ timelimit = NoLimit
    /\ check_funcs = IF vengine THEN DefaultChecks ELSE <<>>
    /\ maxattempts = IF vengine THEN 0 ELSE MaxAttempts
    /\ pc = "compile"
    /\ procState = "none"
    /\ exitCode = None
    /\ returncode = None
    /\ attempts = 0
    /\ presses = 0
    /\ killed = FALSE
    /\ invoked = <<>>
    /\ results = <<>>
    /\ outextExists = FALSE
    /\ timelag = 0
    /\ outFile \in {NoFile, GoodOut}
    /\ repFile = NoFile
    /\ vdfFiles = {}
    /\ outBy = Untracked
    /\ extBy = Untracked
    /\ logged = <<>>
    /\ retval = 0
    /\ exc = ""
    /\ call \in {[func |-> "compile_script", subdir |-> d, staged |-> b] :
                    d \in Subdirs, b \in BOOLEAN}
    /\ script \in CompiledScripts
    /\ cmdtext = <<>>
    /\ logfile = <<>>
    /\ writers = <<>>
    /\ cwd = Home
    /\ disk = NoDisk

running == <<vengine, timelimit, check_funcs, maxattempts, procState, exitCode,
             returncode, attempts, attempt, heartbeat, files, outBy, retval,
             call, logfile, writers, disk>>

\* if subdir: self.copy_model_files(subdir); self.subdir = os.getcwd()
\* copy_model_files: os.makedirs, os.chdir, then copy(f"../{file}", "./")
\* of every file the Script names, which raises when one is not there.
CopyModelFiles ==
    /\ pc = "compile"
    /\ IF call.subdir = NoSubdir
       THEN /\ pc' = "write_script"
            /\ UNCHANGED <<cwd, script, exc>>
       ELSE /\ cwd' = cwd \o call.subdir
            /\ IF call.staged
               THEN /\ pc' = "write_script"
                    /\ script' = [a \in DOMAIN script \cup {"subdir"} |->
                                     IF a = "subdir" THEN cwd' ELSE script[a]]
                    /\ exc' = exc
               ELSE /\ pc' = "raised"
                    /\ exc' = "FileNotFoundError"
                    /\ script' = script
    /\ UNCHANGED <<running, cmdtext, logged>>

\* self.write_script(), where `for var, val in self.setvals` raises for an
\* entry that is no pair; then the supervisor is entered.
CompileWrites ==
    /\ pc = "write_script"
    /\ IF \E i \in 1..Len(script["setvals"]) : Len(script["setvals"][i]) # 2
       THEN /\ pc' = "raised"
            /\ exc' = "ValueError"
            /\ UNCHANGED <<cmdtext, logged>>
       ELSE /\ cmdtext' = write_script(script)
            /\ pc' = IF vengine THEN "spawn" ELSE "vs_loop"
            /\ logged' = IF vengine THEN <<<<"Initialising">>>> ELSE <<>>
            /\ exc' = exc
    /\ UNCHANGED <<running, script, cwd>>

\* if subdir: (copy of the .out file to the parent); os.chdir('..')
\* return payoff
CompileReturns ==
    /\ pc = "returned"
    /\ cwd' = IF call.subdir # NoSubdir THEN Parent(cwd) ELSE cwd
    /\ pc' = "compiled"
    /\ UNCHANGED <<running, script, cmdtext, logged, exc>>

CompileNext ==
    \/ CopyModelFiles
    \/ CompileWrites
    \/ CompileReturns
    \/ SimExits
    \/ SimWritesOutext
    \/ SimWritesOut
    \/ Spawn
    \/ Settle
    \/ WaitReturns
    \/ Classify
    \/ Verify
    \/ Final
    \/ VsLoop
    \/ VsRunReturns
    \/ VsFinal

CompileSpec == CompileInit /\ [][CompileNext]_vars

\* ------------------------------------------------------------ the widgets
\* Text is the sequence of its characters; a numeral stands for a digit.
StartsAt(text, i, key) ==
    /\ i + Len(key) - 1 <= Len(text)
    /\ SubSeq(text, i, i + Len(key) - 1) = key

\* sorted(subs, key=len, reverse=True): the keys, longest first.  (Keys of
\* one length keep the order of the dict; two of them never match at one
\* position.)
Substrings(subs) ==
    CHOOSE q \in [1..Cardinality(DOMAIN subs) -> DOMAIN subs] :
        /\ \A i, j \in DOMAIN q : i # j => q[i] # q[j]
        /\ \A i, j \in DOMAIN q : i < j => Len(q[i]) >= Len(q[j])

\* The alternation '|'.join(...) at position i: the first alternative that
\* matches there, 0 if none does.
Alternative(text, i, q) ==
    LET m == {j \in 1..Len(q) : StartsAt(text, i, q[j])}
    IN  IF m = {} THEN 0 ELSE CHOOSE j \in m : \A k \in m : j <= k

\* regexp.sub(lambda match: subs[match.group(0)], string): the leftmost
\* match is replaced and the scan goes on behind it.
RECURSIVE RegexSub(_, _, _, _)
RegexSub(text, i, q, subs) ==
    IF i > Len(text) THEN <<>>
    ELSE LET j == Alternative(text, i, q)
         IN  IF j = 0 THEN <<text[i]>> \o RegexSub(text, i + 1, q, subs)
             ELSE subs[q[j]] \o RegexSub(text, i + Len(q[j]), q, subs)

\* rep_strings(string, subs).  The pattern of an empty dict is the empty
\* pattern: it matches the empty string at position 0 of any text and the
\* lambda looks '' up in subs.
rep_strings(string, subs) ==
    IF DOMAIN subs = {} THEN Raise("KeyError")
    ELSE Value(RegexSub(string, 1, Substrings(subs), subs))

\* \s and \d on the characters of the model files explored.
IsSpace(c) == c = " " \/ c = "\n"
IsDigit(c) == c = "1" \/ c = "2"

\* The position behind the run of such characters that starts at i.
RECURSIVE Behind(_, _, _)
Behind(text, i, space) ==
    IF i <= Len(text) /\ (IF space THEN IsSpace(text[i]) ELSE IsDigit(text[i]))
    THEN Behind(text, i + 1, space)
    ELSE i

\* varregex at position i: "\n", the escaped varname, \s*=\s* and a number;
\* the position of the last character matched, 0 if there is no match.
VarMatch(text, i, var) ==
    IF text[i] # "\n" \/ ~StartsAt(text, i + 1, var) THEN 0
    ELSE LET eq == Behind(text, i + 1 + Len(var), TRUE)
         IN  IF eq > Len(text) \/ text[eq] # "=" THEN 0
             ELSE LET num == Behind(text, eq + 1, TRUE)
                  IN  IF num > Len(text) \/ ~IsDigit(text[num]) THEN 0
                      ELSE Behind(text, num, FALSE) - 1

\* varregex.sub(f"{var} = {val}", mdl)
RECURSIVE VarSub(_, _, _, _)
VarSub(text, i, var, val) ==
    IF i > Len(text) THEN <<>>
    ELSE LET e == VarMatch(text, i, var)
         IN  IF e = 0 THEN <<text[i]>> \o VarSub(text, i + 1, var, val)
             ELSE var \o <<" ", "=", " ">> \o val \o VarSub(text, e + 1, var, val)

\* A line of the input file: `varname = value`, as a comment (":" first) or not.
InputLine(colon, var, val) == [colon |-> colon, var |-> var, val |-> val]

\* lines = [line for line in f.readlines() if line[0] != ':'] and
\* regex.findall(inregex, text): the (varname, value) tuples.
RECURSIVE Findall(_)
Findall(lines) ==
    IF lines = <<>> THEN <<>>
    ELSE (IF Head(lines).colon THEN <<>> ELSE <<<<Head(lines).var, Head(lines).val>>>>)
         \o Findall(Tail(lines))

\* for var, val in results: mdl = varregex.sub(f"{var} = {val}", mdl)
RECURSIVE Updated(_, _)
Updated(mdl, pairs) ==
    IF pairs = <<>> THEN mdl
    ELSE Updated(VarSub(mdl, 1, Head(pairs)[1], Head(pairs)[2]), Tail(pairs))

\* The texts over {a, b} of at most n characters.
Texts(n) == UNION {[1..k -> {"a", "b"}] : k \in 0..n}

\* The substitution dicts of at most n keys of one or two characters.
Dicts(n) ==
    UNION {[K -> Texts(1) \cup {<<"b", "a">>}] :
              K \in {S \in SUBSET (Texts(2) \ {<<>>}) : Cardinality(S) <= n}}

\* Definitions of a model file: the constant x written in several ways (on
\* one line, without blanks, with the value on the next line, with two
\* digits), the constant ax, and the auxiliary a = x.
Definitions ==
    {<<"x", " ", "=", " ", "1">>, <<"x", "=", "1">>, <<"x", "=", "\n", " ", "1">>,
     <<"x", " ", "=", " ", "1", "2">>, <<"a", "x", " ", "=", " ", "1">>,
     <<"a", " ", "=", " ", "x">>}

\* A model file: the header line, then the definitions, each on a new line.
Mdl(defs) ==
    <<"h">> \o Flatten([i \in 1..Len(defs) |-> <<"\n">> \o defs[i]]) \o <<"\n">>

InputLines ==
    {InputLine(c, var, <<"2">>) : c \in BOOLEAN, var \in {<<"x">>, <<"a", "x">>}}

\* The calls of rep_strings on texts of at most `text` characters with dicts
\* of at most `keys` keys, and those of update_mdl_params on input files of
\* at most `inputs` lines and model files of at most `defs` definitions.
WidgetCalls(text, keys, inputs, defs) ==
    {[func |-> "rep_strings", string |-> t, subs |-> d] :
        t \in Texts(text), d \in Dicts(keys)}
    \cup
    {[func |-> "update_mdl_params", inputfile |-> in, mdl |-> Mdl(ds)] :
        in \in UNION {[1..n -> InputLines] : n \in 0..inputs},
        ds \in UNION {[1..n -> Definitions] : n \in 0..defs}}

WidgetInit == Called(WidgetCalls(MaxText, MaxKeys, MaxInputs, MaxDefs), "widget")

\* rep_strings(old, subs)
RepStrings ==
    /\ pc = "widget"
    /\ call.func = "rep_strings"
    /\ LET r == rep_strings(call.string, call.subs)
       IN  IF r.exc # ""
           THEN pc' = "raised" /\ exc' = r.exc /\ retval' = retval
           ELSE pc' = "returned" /\ retval' = r.val /\ exc' = exc
    /\ UNCHANGED <<supervisor, library, logged>>

\* update_mdl_params up to copy(mdlfile, f'./{mdlfile[:-4]}_BACKUP{mdlfile[-4:]}')
UpdateBacksUp ==
    /\ pc = "widget"
    /\ call.func = "update_mdl_params"
    /\ disk' = [f \in {"mdl", "backup"} |-> call.mdl]
    /\ pc' = "substitute"
    /\ UNCHANGED <<supervisor, call, script, cmdtext, logfile, writers, cwd, logged,
                   outcome>>

\* update_mdl_params from open(mdlfile, 'r') on: the substitutions, then
\* m.write(mdl)
UpdateOverwrites ==
    /\ pc = "substitute"
    /\ disk' = [disk EXCEPT !["mdl"] = Updated(@, Findall(call.inputfile))]
    /\ pc' = "returned"
    /\ UNCHANGED <<supervisor, call, script, cmdtext, logfile, writers, cwd, logged,
                   outcome>>

WidgetNext == RepStrings \/ UpdateBacksUp \/ UpdateOverwrites

WidgetSpec == WidgetInit /\ [][WidgetNext]_vars

\* ----------------------------------------------------------------- claims
\* The attempt that has just been verified: the supervisor is past Verify and
\* has not launched the next process.
Verified == vengine /\ pc \in {"spawn", "final", "returned", "raised"} /\ attempts > 0
                    /\ (returncode = "0" \/ returncode = "3221225477")

HasLine(lines, l) == \E i \in 1..Len(lines) : lines[i] = l

\* C1: run_vengine_script returns a value only after an attempt whose process
\* ended by itself with exit code 0 or 3221225477 and in which every
\* registered check was called and returned true.
C1_ReturnOnlyAfterAcceptedAndChecked ==
    (vengine /\ pc = "returned") =>
        /\ returncode \in {"0", "3221225477"}
        /\ exitCode = returncode
        /\ procState = "exited"
        /\ invoked = check_funcs
        /\ \A i \in 1..Len(results) : results[i] = "True"

\* A return after one failed attempt, with an access-violation exit code
\* accepted and two checks passed.
C1_Witness ==
    /\ vengine
    /\ pc = "returned"
    /\ attempts = 2
    /\ returncode = "3221225477"
    /\ Len(results) >= 2

\* C2: a return code outside {0, 3221225477} is logged, no check function is
\* called for that attempt, and the supervisor goes back to the loop head,
\* where its next step is to launch a new process.
C2_FailureCodeRetries ==
    /\ [][(vengine /\ pc = "classify" /\ returncode \notin {"0", "3221225477"})
          => /\ pc' = "spawn"
             /\ HasLine(logged', <<"Return code is", returncode>>)
             /\ invoked' = <<>>
             /\ results' = <<>>]_vars
    /\ [][(vengine /\ pc = "spawn" /\ pc' # pc)
          => /\ pc' = "settle"
             /\ procState' = "running"
             /\ attempts' = attempts + 1]_vars

\* Exit code 1 was classified: logged, no check called, back at the loop head.
C2_Witness ==
    /\ vengine
    /\ pc = "spawn"
    /\ returncode = "1"
    /\ HasLine(logged, <<"Return code is", "1">>)
    /\ invoked = <<>>

\* C3: an attempt on which proc.kill() was called is never verified and never
\* accepted: no check function is called on it and the supervisor neither
\* reaches the payoff extraction nor returns from it.
C3_KilledAttemptIsFailure ==
    (vengine /\ killed) =>
        /\ invoked = <<>>
        /\ pc \in {"classify", "spawn"}

\* C4: with the heartbeat file present and its lag below the time limit, the
\* heartbeat step kills nothing, launches nothing, classifies nothing and
\* returns to the wait on the same process.
C4_FreshHeartbeatContinues ==
    [][(pc = "heartbeat" /\ pc' # pc /\ outextExists /\ timelag < timelimit)
       => /\ pc' = "wait"
          /\ killed' = FALSE
          /\ procState' = procState
          /\ exitCode' = exitCode
          /\ returncode' = None
          /\ attempts' = attempts]_vars

\* Back in the wait after a timeout, a failed bypass and a fresh heartbeat.
C4_Witness ==
    /\ pc = "wait"
    /\ presses = 2
    /\ ~killed
    /\ logged # <<>>
    /\ logged[Len(logged)] = <<"continuing...">>

\* C5: the heartbeat step kills the process exactly when the heartbeat file
\* is missing or its lag is greater than or equal to the time limit.
C5_KillIffStalled ==
    [][(pc = "heartbeat" /\ pc' # pc)
       => (killed' <=> (~outextExists \/ timelag >= timelimit))]_vars

\* A kill at a lag exactly equal to the time limit.
C5_Witness ==
    /\ killed
    /\ pc = "classify"
    /\ outextExists
    /\ timelag = timelimit

C7_EveryCheckInvoked ==
    Verified => invoked = check_funcs

\* C7 as amended: the check functions are called in registration order, each
\* at most once, up to and including the first one that raises; a check that
\* returns false does not stop the calls, so when none raises every
\* registered check is called exactly once.
C7_AllInvokedUntilRaise ==
    Verified =>
        /\ Len(invoked) <= Len(check_funcs)
        /\ invoked = SubSeq(check_funcs, 1, Len(invoked))
        /\ \A i \in 1..(Len(results) - 1) : results[i] \in {"True", "False"}
        /\ Len(invoked) < Len(check_funcs)
              => results[Len(results)] \notin {"True", "False"}

\* check_zeroes returned false and the two checks registered after it were
\* still called.
C7_Witness ==
    /\ Verified
    /\ Len(invoked) = 3
    /\ results[1] = "False"
    /\ pc = "spawn"

\* The check function opens a file that does not exist.
OpensMissing(func) ==
    \/ func \in {"check_restarts", "check_zeroes", "check_payoffs"} /\ ~outFile.exists
    \/ func = "check_payoffs" /\ outFile.exists /\ ~repFile.exists
       /\ Len(outFile.lines) >= 2 /\ outFile.lines[2] # <<>>

\* C8: a check function that opens a missing file yields FileNotFoundError,
\* not False; the supervisor logs it, surfaces no error and is back at the
\* loop head for a new attempt.
C8_MissingFileRetries ==
    \A i \in 1..Len(invoked) :
        (Verified /\ OpensMissing(invoked[i])) =>
            /\ results[i] = "FileNotFoundError"
            /\ results[i] # "False"
            /\ pc = "spawn"
            /\ exc = ""
            /\ logged[Len(logged)] = <<"Outfile not found!">>

\* check_restarts found no .out file after an accepted exit.
C8_Witness ==
    /\ Verified
    /\ pc = "spawn"
    /\ invoked = <<"check_restarts">>
    /\ results = <<"FileNotFoundError">>
    /\ ~outFile.exists

\* C9 as claimed, its last part: an attempt that ends with an accepted exit
\* code and leaves no .out file ends in Success (with return value 0).
C9_AcceptedWithoutOutSucceeds ==
    (Verified /\ ~outFile.exists) =>
        /\ pc \in {"final", "returned"}
        /\ pc = "returned" => retval = 0

\* C9 as amended: a supervisor that has left its retry loop and returned has
\* returned the first number of line 1 of <runname>.out if that file exists,
\* and 0 if it does not; an attempt that ends with an accepted exit code and
\* passes every registered check while no .out file exists ends in Success
\* with return value 0.
C9_PayoffOrZero ==
    /\ pc = "returned" =>
          IF outFile.exists
          THEN /\ Len(outFile.lines) >= 2
               /\ outFile.lines[2] # <<>>
               /\ retval = outFile.lines[2][1]
          ELSE retval = 0
    /\ (/\ Verified
        /\ ~outFile.exists
        /\ invoked = check_funcs
        /\ \A i \in 1..Len(results) : results[i] = "True")
          => /\ pc \in {"final", "returned"}
             /\ pc = "returned" => retval = 0

\* A run that left no .out file, ended with an accepted code and passed its
\* check: Success with return value 0.
C9_Witness ==
    /\ vengine
    /\ pc = "returned"
    /\ returncode = "0"
    /\ ~outFile.exists
    /\ invoked = <<"check_output">>
    /\ retval = 0

\* C10 as claimed: run_vengine_script never surfaces an error to its caller.
C10_NoFatalPath ==
    vengine => pc # "raised"

\* C10 as amended: there is no retry cap, and an attempt that fails by a
\* non-accepted return code, a check returning false or a missing file leads
\* back to the loop head, where the next process is launched; but a result
\* file that exists and cannot be parsed ends the function with that error
\* surfaced to the caller, from a check function or from the final
\* read_payoff.  The function ends only by Success or by such an error.
C10_RetryUnlessParseError ==
    /\ [][(vengine /\ pc = "classify" /\ returncode \notin {"0", "3221225477"})
          => pc' = "spawn"]_vars
    /\ [][(vengine /\ pc = "verify" /\ pc' # pc)
          => \/ /\ pc' = "final"
                /\ \A i \in 1..Len(results') : results'[i] = "True"
             \/ /\ pc' = "spawn"
                /\ \E i \in 1..Len(results') :
                       results'[i] \in {"False", "FileNotFoundError"}
                /\ \A i \in 1..Len(results') :
                       results'[i] \in {"True", "False", "FileNotFoundError"}
             \/ /\ pc' = "raised"
                /\ exc' = "IndexError"
                /\ results'[Len(results')] = "IndexError"]_vars
    /\ [][(vengine /\ pc = "final" /\ pc' # pc)
          => \/ pc' = "returned"
             \/ pc' = "raised" /\ exc' = "IndexError"]_vars
    /\ [][(vengine /\ pc \in {"returned", "raised"}) => pc' = pc]_vars
    /\ [](vengine /\ pc = "spawn" /\ attempts < MaxAttempts => ENABLED Spawn)

\* A first attempt failed and was retried; the second left a result file
\* that a check function could not parse, and the error reached the caller.
C10_Witness ==
    /\ vengine
    /\ pc = "raised"
    /\ attempts = 2
    /\ exc = "IndexError"
    /\ invoked # <<>>

\* The .out file is present and its payoff line (line 1) holds no number.
NoPayoffToken(f) == f.exists /\ Len(f.lines) >= 2 /\ f.lines[2] = <<>>

\* C11: when the .out file exists but its payoff line holds no numeric token,
\* the IndexError of read_payoff reaches the caller, both from check_payoffs
\* (called first in the check list) and from the final payoff extraction of
\* either supervisor, and after an exception has reached the caller no
\* process is launched and nothing is returned.
C11_ParseErrorSurfaced ==
    [][/\ (/\ pc = "verify"
           /\ pc' # "verify"
           /\ check_funcs # <<>>
           /\ check_funcs[1] = "check_payoffs"
           /\ NoPayoffToken(outFile))
          => (pc' = "raised" /\ exc' = "IndexError" /\ attempts' = attempts)
       /\ (pc = "final" /\ pc' # "final" /\ NoPayoffToken(outFile))
          => (pc' = "raised" /\ exc' = "IndexError" /\ attempts' = attempts)
       /\ pc = "raised"
          => (pc' = "raised" /\ exc' = exc /\ attempts' = attempts
              /\ procState' = procState /\ retval' = retval)]_vars

C11_Witness ==
    /\ pc = "raised"
    /\ exc = "IndexError"
    /\ invoked = <<"check_payoffs">>
    /\ results = <<"IndexError">>
    /\ NoPayoffToken(outFile)
    /\ attempts = 1

\* C12: run_vensim_script does not return a value when its attempts are used
\* up and the last of them (hence each of them) failed, by a non-zero exit
\* code or by leaving no designated output file: the caller gets an error.
C12_ExhaustionSurfaced ==
    (~vengine /\ pc = "returned" /\ attempts > 0 /\ attempts = maxattempts)
        => (returncode = "0" /\ outextExists)

\* C13: run_vensim_script launches the simulator at most maxattempts times
\* (each launch is counted), launches nothing when maxattempts = 0, and, the
\* simulator ending each run with some exit code, its retry loop comes to an
\* end whatever the exit codes and the output files are.
C13_BoundedLaunchesTerminate ==
    /\ [](attempts <= maxattempts)
    /\ [](maxattempts = 0 => (attempts = 0 /\ procState = "none"))
    /\ [][(procState # "running" /\ procState' = "running")
            => attempts' = attempts + 1]_vars
    /\ <>(pc \in {"final", "returned", "raised"})

C13_Witness ==
    /\ ~vengine
    /\ pc = "final"
    /\ maxattempts = MaxAttempts
    /\ attempts = maxattempts
    /\ returncode # "0"

\* C14: run_vensim_script leaves its loop at the first attempt that ends with
\* exit code 0 and with the designated output file present, and launches
\* nothing afterwards; an attempt with a non-zero exit code goes back to the
\* loop test without the output file being consulted (nothing is logged), and
\* so does an attempt with exit code 0 and no output file; from the loop test
\* the next launch follows while attempts are left; no check function is
\* called, no enter key is pressed and no process is killed.
C14_VensimRetryRule ==
    /\ [][(pc = "vs_run" /\ pc' # "vs_run")
            => /\ procState = "exited"
               /\ (exitCode = "0" /\ outextExists) => pc' = "final"
               /\ exitCode # "0" => (pc' = "vs_loop" /\ logged' = logged)
               /\ (exitCode = "0" /\ ~outextExists) => pc' = "vs_loop"]_vars
    /\ [][(pc = "vs_loop" /\ pc' # "vs_loop")
            => IF attempts < maxattempts
               THEN procState' = "running" /\ attempts' = attempts + 1
               ELSE pc' = "final" /\ attempts' = attempts]_vars
    /\ [][(pc = "final" \/ pc = "returned" \/ pc = "raised")
            => (attempts' = attempts /\ procState' = procState)]_vars
    /\ [](invoked = <<>> /\ presses = 0 /\ ~killed /\ procState # "killed")

C14_Witness ==
    /\ ~vengine
    /\ pc = "final"
    /\ attempts = 1
    /\ maxattempts = MaxAttempts
    /\ returncode = "0"
    /\ outextExists

\* The first process ended by itself with an accepted exit code before any
\* wait timed out, and every registered check was called and returned true.
FirstTryPassed ==
    /\ vengine
    /\ attempts = 1
    /\ presses = 1
    /\ (returncode = "0" \/ returncode = "3221225477")
    /\ invoked = check_funcs
    /\ \A i \in 1..Len(results) : results[i] = "True"

\* C15: when the first process of run_vengine_script ends with an accepted
\* exit code before the timeout and all registered checks pass, the loop is
\* left for the payoff extraction: no second process is spawned, no kill is
\* issued, and the value returned is the payoff on line 1 of the .out file.
\* (Without an .out file 0 is returned; a payoff line that cannot be read
\* ends in the error of C11.)
C15_FirstTrySuccess ==
    FirstTryPassed
        => /\ pc \in {"final", "returned", "raised"}
           /\ ~killed
           /\ procState = "exited"
           /\ pc = "returned"
                => retval = (IF outFile.exists THEN outFile.lines[2][1] ELSE 0)
           /\ pc = "raised"
                => (outFile.exists
                    /\ (Len(outFile.lines) < 2 \/ outFile.lines[2] = <<>>))

C15_Witness ==
    /\ FirstTryPassed
    /\ pc = "returned"
    /\ outFile = GoodOut
    /\ retval = GoodOut.lines[2][1]
    /\ ~killed

\* C16: when the wait and the bypass have timed out on a process that is
\* still running and whose heartbeat file is missing or at least timelimit
\* old, the supervisor kills it (Stalled), then classifies the attempt as a
\* failure without calling a check (Crashed), then spawns a new process
\* (Retrying); and an attempt after the first that ends by itself with an
\* accepted exit code and passes every registered check leaves the loop
\* (Success).
C16_StallKillRetry ==
    /\ [][(/\ pc = "heartbeat"
            /\ pc' # "heartbeat"
            /\ procState = "running"
            /\ (~outextExists \/ timelag >= timelimit))
           => (/\ pc' = "classify"
               /\ killed'
               /\ procState' = "killed"
               /\ returncode' = None
               /\ logged' = Append(logged, <<"Calibration timed out!">>))]_vars
    /\ [][(pc = "classify" /\ pc' # "classify" /\ procState = "killed")
           => (/\ pc' = "spawn"
               /\ invoked' = <<>>
               /\ HasLine(logged', <<"Vensim! Trying again...">>))]_vars
    /\ [][(pc = "spawn" /\ pc' # "spawn")
           => (/\ pc' = "settle"
               /\ procState' = "running"
               /\ attempts' = attempts + 1
               /\ ~killed')]_vars
    /\ [][(/\ pc = "classify"
            /\ pc' # "classify"
            /\ attempts > 1
            /\ procState = "exited"
            /\ (returncode = "0" \/ returncode = "3221225477"))
           => pc' = "verify"]_vars
    /\ [][(/\ pc = "verify"
            /\ pc' # "verify"
            /\ attempts > 1
            /\ invoked' = check_funcs
            /\ \A i \in 1..Len(results') : results'[i] = "True")
           => (pc' = "final" /\ attempts' = attempts)]_vars

C16_Witness ==
    /\ vengine
    /\ pc = "spawn"
    /\ attempts = 1
    /\ killed
    /\ procState = "killed"
    /\ returncode = None
    /\ logged = <<<<"Checking for">>, <<"Calibration timed out!">>,
                  <<"Return code is", None>>, <<"Vensim! Trying again...">>>>

\* A parameter line read as the claim reads it: its value is 0 and 0 lies
\* below a lower bound that the line gives or above an upper bound that it
\* gives (a bound the line does not give excludes nothing).
Flagged(l) ==
    LET n == Len(l.parts)
        value == IF l.lt THEN l.parts[3] ELSE l.parts[2]
        hasUpper == IF l.lt THEN n = 4 ELSE n = 3
    IN  /\ value = 0
        /\ \/ l.lt /\ 0 < l.parts[1]
           \/ hasUpper /\ 0 > l.parts[n]

\* C17: check_zeroes, given an existing .out file, returns false if some
\* parameter line has value 0 with 0 strictly outside its bounds, and true
\* otherwise; a bound equal to 0 does not flag the line, and a bound the line
\* does not give counts as minus or plus infinity (lower=1, upper=5, value=0
\* gives false; lower=0, upper=5, value=0 gives true).
C17_ZeroesIffOutOfBounds ==
    /\ (invoked = <<"check_zeroes">> /\ outFile.exists)
        => /\ results[1] \in {"True", "False"}
           /\ results[1] = "False"
                <=> \E i \in 1..Len(outFile.params) : Flagged(outFile.params[i])
    /\ check_zeroes(File(TRUE, <<>>, <<>>, <<>>, <<Param(1, 0, 5)>>)) = "False"
    /\ check_zeroes(File(TRUE, <<>>, <<>>, <<>>, <<Param(0, 0, 5)>>)) = "True"

C17_Witness ==
    /\ invoked = <<"check_zeroes">>
    /\ results = <<"False">>
    /\ outFile.params = <<Line(FALSE, <<ParamName, 0>>), Param(1, 0, 1)>>
    /\ pc = "spawn"

\* The number a numeral stands for.
RECURSIVE NumVal(_)
NumVal(d) ==
    IF d = <<>> THEN 0 ELSE 10 * NumVal(SubSeq(d, 1, Len(d) - 1)) + d[Len(d)]

\* C18: check_restarts, given an .out file whose header reports a simulation
\* count and which has a :RESTART_MAX line, returns false if the count equals
\* the RESTART_MAX value and true otherwise, for every pair of the two; a
\* header without a count gives true ('After 5 simulations' with
\* RESTART_MAX=5 gives false, 'After 6 simulations' with RESTART_MAX=5 true).
C18_RestartsIffEqual ==
    /\ (invoked = <<"check_restarts">> /\ outFile.exists)
        => /\ results[1] \in {"True", "False"}
           /\ (outFile.after # <<>> /\ outFile.restart # <<>>)
                => (results[1] = "False"
                    <=> NumVal(outFile.after[1]) = NumVal(outFile.restart[1][1]))
           /\ outFile.after = <<>> => results[1] = "True"
    /\ check_restarts(File(TRUE, <<<<5>>>>, <<<<5>>>>, <<<<<<5>>>>>>, <<>>)) = "False"
    /\ check_restarts(File(TRUE, <<<<6>>>>, <<<<6>>>>, <<<<<<5>>>>>>, <<>>)) = "True"

C18_Witness ==
    /\ invoked = <<"check_restarts">>
    /\ results = <<"False">>
    /\ outFile.after = <<<<1, 5>>>>
    /\ outFile.restart = <<<<<<1, 5>>>>>>
    /\ pc = "spawn"

C20_OutputIffVdfOrVdfx ==
    /\ [](invoked = <<"check_output">>
            => /\ vdfFiles = {} => results = <<"False">>
               /\ (vdfFiles = {".vdf"} \/ vdfFiles = {".vdfx"}
                   \/ vdfFiles = {".vdf", ".vdfx"}) => results = <<"True">>)
    /\ [][(pc = "verify" /\ check_funcs = <<"check_output">>)
            => /\ UNCHANGED <<outFile, repFile, vdfFiles, outextExists, timelag>>
               /\ SubSeq(logged', 1, Len(logged)) = logged]_vars

C20_Witness ==
    /\ invoked = <<"check_output">>
    /\ results = <<"True">>
    /\ vdfFiles = {".vdfx"}
    /\ ~outFile.exists
    /\ pc = "final"

\* The first piece of a line of the command file ("" for the blank line).
Directive(line) == IF line = <<>> THEN "" ELSE line[1]
\* The lines of the written command file that start with the directive d.
LinesOf(d) == {i \in 1..Len(cmdtext) : Directive(cmdtext[i]) = d}
Written == pc = "written"

\* The place of a line in the order of the directives: settings keep the
\* order payoff, sensitivity, optparm, savelist, senssavelist.
Rank(line) ==
    LET d == Directive(line)
    IN  IF d = "SPECIAL>NOINTERACTION" THEN 10
        ELSE IF d = "SPECIAL>LOADMODEL|" THEN 20
        ELSE IF d = "SIMULATE>"
        THEN 30 + CHOOSE k \in 1..Len(Settings) : Settings[k] = line[2]
        ELSE IF d = "SIMULATE>DATA|\"" THEN 40
        ELSE IF d = "SIMULATE>READCIN|" THEN 50
        ELSE IF d = "SIMULATE>ADDCIN|" THEN 51
        ELSE IF d = "SIMULATE>SETVAL|" THEN 60
        ELSE IF d = "" THEN 70
        ELSE IF d = "SIMULATE>RUNNAME|" THEN 80
        ELSE IF d = "SIMULATE>REPORT|1" THEN 90
        ELSE IF d = "MENU>" THEN 100
        ELSE IF d = "SPECIAL>CLEARRUNS" THEN 120
        ELSE IF d = "MENU>EXIT" THEN 130
        ELSE 0
\* Directives that may come several times in a row.
Repeats(r) == r = 51 \/ r = 60 \/ r = 100

\* C21 as stated: in every written command file, every SETVAL line comes
\* after the RUNNAME line and the REPORT line and before the run command.
C21_SetvalAfterReport ==
    Written =>
        \A i \in LinesOf("SIMULATE>SETVAL|") :
            /\ \A j \in LinesOf("SIMULATE>RUNNAME|") \cup LinesOf("SIMULATE>REPORT|1") : j < i
            /\ \A j \in LinesOf("MENU>") : i < j

\* C21 (amended): in every written command file the directives come in the
\* order NOINTERACTION, LOADMODEL, present settings, DATA, READCIN, ADDCIN,
\* SETVAL overrides in caller-supplied order, blank line, RUNNAME, REPORT, run
\* command, save command, CLEARRUNS, EXIT: every SETVAL line comes after the
\* change files and before the blank line, RUNNAME, REPORT and the run command.
C21_DirectiveOrder ==
    Written =>
        LET n == Len(cmdtext)
            sv == LinesOf("SIMULATE>SETVAL|")
        IN  /\ \A i \in 1..n : Rank(cmdtext[i]) # 0
            /\ \A i \in 1..(n - 1) :
                  \/ Rank(cmdtext[i]) < Rank(cmdtext[i + 1])
                  \/ /\ Rank(cmdtext[i]) = Rank(cmdtext[i + 1])
                     /\ Repeats(Rank(cmdtext[i]))
            /\ \A r \in {10, 20, 70, 80, 90, 120, 130} :
                  Cardinality({i \in 1..n : Rank(cmdtext[i]) = r}) = 1
            /\ Cardinality(LinesOf("MENU>")) = 2
            /\ cmdtext[n - 3] = <<"MENU>">> \o script["runcmd"]
            /\ cmdtext[n - 2] = <<"MENU>">> \o script["savecmd"] \o <<"|">>
            /\ Cardinality(sv) = Len(call.setvals)
            /\ \A k \in 1..Len(call.setvals) :
                  LET i == n - 7 - Len(call.setvals) + k
                  IN  /\ i \in sv
                      /\ cmdtext[i][2] = call.setvals[k][1]
                      /\ cmdtext[i][4] = Format(call.setvals[k][2])
            /\ \A i \in sv :
                  /\ \A j \in LinesOf("SIMULATE>READCIN|") \cup LinesOf("SIMULATE>ADDCIN|") : j < i
                  /\ \A j \in LinesOf("") \cup LinesOf("SIMULATE>RUNNAME|")
                              \cup LinesOf("SIMULATE>REPORT|1") \cup LinesOf("MENU>") : i < j

\* A command file with every optional directive, two change files and two
\* different overrides has been written.
C21_Witness ==
    /\ Written
    /\ Optional \subseteq DOMAIN script
    /\ Len(script["changes"]) = 2
    /\ Len(call.setvals) = 2
    /\ call.setvals[1] # call.setvals[2]
    /\ Cardinality(LinesOf("SIMULATE>SETVAL|")) = 2

\* The Script object without the attribute f.
Without(self, f) == [k \in DOMAIN self \ {f} |-> self[k]]
\* The constructor call whose control file lacks the simcontrol key f, or
\* whose overrides are empty (f = "setvals").
CallWithout(c, f) ==
    IF f = "setvals" THEN [c EXCEPT !.setvals = <<>>]
    ELSE [c EXCEPT !.controlfile =
             [k \in DOMAIN c.controlfile |->
                 IF k = "simcontrol" THEN Without(c.controlfile["simcontrol"], f)
                 ELSE c.controlfile[k]]]
\* A line of the command file is a directive line of the field f.
LineOf(line, f) ==
    LET d == Directive(line)
    IN  IF f = "data" THEN d = "SIMULATE>DATA|\""
        ELSE IF f = "changes" THEN d = "SIMULATE>READCIN|" \/ d = "SIMULATE>ADDCIN|"
        ELSE IF f = "setvals" THEN d = "SIMULATE>SETVAL|"
        ELSE d = "SIMULATE>" /\ line[2] = f
\* The command file with the directive lines of the field f deleted.
Deleted(text, f) ==
    LET Keep(line) == ~LineOf(line, f)
    IN  SelectSeq(text, Keep)

\* C22: the command file written for a Script that lacks one optional field
\* (payoff, sensitivity, optparm, savelist, senssavelist, data, change files,
\* overrides) is the command file written for the Script that has it with the
\* directive lines of that field deleted, the other lines in the same order;
\* both for the object without the attribute and for the Script constructed
\* without the field.
C22_RemovalDeletesOnly ==
    Written =>
        \A f \in (Optional \cup {"setvals"}) \cap DOMAIN script :
            /\ write_script(Without(script, f)) = Deleted(cmdtext, f)
            /\ LET c == CallWithout(call, f)
                   s == Script(c.controlfile, c.name, c.sfxs, c.chglist, c.setvals,
                               c.simtype)
               IN  s.exc = "" => write_script(s.val) = Deleted(cmdtext, f)

\* A command file has been written in which every optional field has lines,
\* so that removing any of them shortens it.
C22_Witness ==
    /\ Written
    /\ Optional \subseteq DOMAIN script
    /\ \A f \in Optional \cup {"setvals"} :
          /\ Len(Deleted(cmdtext, f)) < Len(cmdtext)
          /\ Len(Deleted(cmdtext, f)) > 9
    /\ LET c == CallWithout(call, "payoff")
       IN  Script(c.controlfile, c.name, c.sfxs, c.chglist, c.setvals, c.simtype).exc = ""

\* The change-file lines of the written command file, in file order.
ChangeLinesWritten ==
    LET IsChange(line) == LineOf(line, "changes")
    IN  SelectSeq(cmdtext, IsChange)
\* The number of change files the chglist entries before the k-th stand for.
RECURSIVE Before(_, _)
Before(chglist, k) ==
    IF k = 1 THEN 0
    ELSE Before(chglist, k - 1)
         + (IF chglist[k - 1].type = "str" THEN 1 ELSE Len(chglist[k - 1].names))

\* C23: the command file names the control file's change files first, in list
\* order, then the files of the chglist entries in the order given; the first
\* of them in a READCIN line and every later one in an ADDCIN line; with no
\* change file at all there is no READCIN and no ADDCIN line.
C23_ChangeFilesInOrder ==
    Written =>
        LET own == call.controlfile["simcontrol"]["changes"]
            cl == call.chglist
            lines == ChangeLinesWritten
            n == Len(own) + Before(cl, Len(cl) + 1)
        IN  /\ Len(lines) = n
            /\ \A i \in 1..n :
                  lines[i][1] = IF i = 1 THEN "SIMULATE>READCIN|" ELSE "SIMULATE>ADDCIN|"
            /\ \A i \in 1..Len(own) : Tail(lines[i]) = own[i]
            /\ \A k \in 1..Len(cl) :
                  LET at == Len(own) + Before(cl, k)
                  IN  IF cl[k].type = "str"
                      THEN Tail(lines[at + 1]) = cl[k].names
                      ELSE \A m \in 1..Len(cl[k].names) :
                              Tail(lines[at + m]) =
                                  <<call.controlfile["basename"], cl[k].names[m],
                                    cl[k].sfx, ".out">>
            /\ (n = 0 => LinesOf("SIMULATE>READCIN|") \cup LinesOf("SIMULATE>ADDCIN|") = {})

\* A command file with two control-file change files followed by the files of
\* a list entry and of a plain entry of chglist has been written.
C23_Witness ==
    /\ Written
    /\ Len(call.controlfile["simcontrol"]["changes"]) = 2
    /\ Len(call.chglist) = 2
    /\ call.chglist[1].type = "list"
    /\ call.chglist[2].type = "str"
    /\ Len(ChangeLinesWritten) = 5
    /\ Cardinality(LinesOf("SIMULATE>ADDCIN|")) = 4

Constructed == pc = "write" \/ pc = "written"

C24_PayoffLineByExtension ==
    (call # NoCall /\ call.func = "read_payoff") =>
        /\ pc = "returned" =>
              LET line == IF call.ext = ".rep" THEN 0 ELSE 1
              IN  /\ Len(call.file.lines) > line
                  /\ call.file.lines[line + 1] # <<>>
                  /\ retval = call.file.lines[line + 1][1]
        /\ (pc = "returned" \/ pc = "raised") =>
              IF call.ext = ".rep" \/ call.ext = ".out"
              THEN logged = <<>>
              ELSE logged = <<<<"Warning: attempting to read payoff from">>>>

\* read_payoff has returned the first of two tokens of line 1 of a file that
\* ends in neither .rep nor .out, whose line 0 holds another number.
C24_Witness ==
    /\ call # NoCall
    /\ call.func = "read_payoff"
    /\ pc = "returned"
    /\ call.ext = ".tab"
    /\ Len(call.file.lines) = 3
    /\ call.file.lines[1] = <<1001>>
    /\ call.file.lines[2] = <<1012, 1022>>
    /\ retval = 1012
    /\ logged # <<>>

\* The lines of the file given to read_outvals that do not begin with ':'.
ParamRows == {i \in 1..Len(call.rows) : ~call.rows[i].colon}
\* The place in the file of the k-th line that does not begin with ':'.
NthParamRow(k) ==
    CHOOSE i \in ParamRows : Cardinality({j \in ParamRows : j <= i}) = k

\* C25: read_outvals returns one record per line that does not begin with
\* ':', in file order, with the name and the value of the line, the line's
\* lower bound or minus infinity if it gives none, and the line's upper bound
\* or plus infinity if it gives none.
C25_OneRecordPerParameterLine ==
    (call # NoCall /\ call.func = "read_outvals" /\ pc = "returned") =>
        /\ Len(retval) = Cardinality(ParamRows)
        /\ \A k \in 1..Len(retval) :
              LET l == call.rows[NthParamRow(k)].line
                  hasLower == l.lt
                  at == IF hasLower THEN 1 ELSE 0
                  hasUpper == Len(l.parts) = at + 3
              IN  /\ retval[k].Name = l.parts[at + 1]
                  /\ retval[k].Value = l.parts[at + 2]
                  /\ retval[k].Lower = IF hasLower THEN l.parts[1] ELSE -Inf
                  /\ retval[k].Upper = IF hasUpper THEN l.parts[at + 3] ELSE Inf

\* read_outvals has returned the records of a file that holds a ':' line and
\* then a parameter line with an upper bound only.
C25_Witness ==
    /\ call # NoCall
    /\ call.func = "read_outvals"
    /\ pc = "returned"
    /\ Len(call.rows) = 2
    /\ call.rows[1].colon
    /\ ~call.rows[2].colon
    /\ call.rows[2].line = Line(FALSE, <<ParamName + 1, 1, 5>>)
    /\ retval = <<[Name |-> ParamName + 1, Value |-> 1, Lower |-> -Inf, Upper |-> 5]>>

\* How often the line (with its "\n") stands in the logfile as a whole line.
Occurrences(line) ==
    Cardinality({i \in 1..Len(logfile) :
                    /\ i = 1 \/ logfile[i - 1] = "\n"
                    /\ i + Len(line) - 1 <= Len(logfile)
                    /\ SubSeq(logfile, i, i + Len(line) - 1) = line})
AllLogged == pc = "log" /\ \A w \in Supervisors : writers[w].pc = "idle" /\ writers[w].done > 0
\* A write_log call of supervisor w ends in this step.
Ends(w) == pc = "log" /\ MidCall(w) /\ writers'[w].pc = "idle"

\* C26 as stated: whatever the interleaving of the two supervisors' write_log
\* calls, every line that has been logged is in the file exactly once, intact.
C26_EveryLineOnceIntact ==
    AllLogged =>
        \A w \in Supervisors : \A k \in 1..writers[w].done :
            Occurrences(LogLine(w, k)) = 1

\* C26 (amended): a write_log call that overlaps no other call, and any call
\* on a host whose append-mode write is one step, adds exactly its line at
\* the end of the file and leaves the earlier content as it is; the file
\* changes in no other step than the end of a call.
C26_AppendOnlyWhenNotOverlapped ==
    [][/\ logfile' # logfile => \E w \in Supervisors : Ends(w)
       /\ \A w \in Supervisors :
             (Ends(w) /\ (writers[w].alone \/ call.host = "posix"))
                 => logfile' = logfile \o LogLine(w, writers[w].done + 1)]_vars

\* Both supervisors have logged two lines each, their last calls overlapping
\* no other call, on the host whose append is a seek and a write, and every
\* line is in the file once after the earlier content.
C26_Witness ==
    /\ AllLogged
    /\ call.host = "nt"
    /\ \A w \in Supervisors : writers[w].done = 2 /\ writers[w].alone
    /\ Len(logfile) = 2 + 2 * 2 + 2 * 3
    /\ SubSeq(logfile, 1, 2) = <<"e", "\n">>
    /\ \A w \in Supervisors : \A k \in 1..2 : Occurrences(LogLine(w, k)) = 1

\* C27: in every attempt the process is spawned, then comes the settle delay
\* with the start-up keystroke, then the first wait; the start-up keystroke
\* is injected once if the simulator shows the popup at start-up and not at
\* all if it does not.
C27_StartupKeystroke ==
    [][/\ (pc = "spawn" /\ pc' # pc) => (pc' = "settle" /\ presses' = 0)
       /\ (pc = "settle" /\ pc' # pc) =>
             /\ pc' = "wait"
             /\ procState # "none"
             /\ presses' = IF ExpirationPopup THEN 1 ELSE 0
       /\ (pc' = "wait" /\ pc # pc') => (pc = "settle" \/ pc = "heartbeat")]_vars

\* C29: run_vengine_script spawns a process only when the process it spawned
\* before has exited or has been sent a kill, so that at most one process it
\* spawned is neither exited nor killed.
C29_OneLiveProcess ==
    [][(vengine /\ pc = "spawn" /\ pc' = "settle") =>
          /\ procState = "none" \/ procState = "exited" \/ procState = "killed"
          /\ attempts > 0 => procState # "none"
          /\ procState' = "running"]_vars

\* The second process is about to be spawned after the first was killed as
\* stalled.
C29_Witness ==
    /\ vengine
    /\ pc = "spawn"
    /\ attempts = 1
    /\ attempts < MaxAttempts
    /\ killed
    /\ procState = "killed"

\* C30: an attempt of run_vengine_script passes its checks of the .out file,
\* and a payoff is returned from the .out file, only if the process of that
\* attempt has written the .out file: a file left by the process of an
\* earlier attempt never stands in for it.
C30_NoStaleOutput ==
    /\ (Verified /\ (pc = "final" \/ pc = "returned") /\ outFile.exists
          /\ \E i \in 1..Len(invoked) :
                invoked[i] \in {"check_restarts", "check_zeroes", "check_payoffs"})
          => ~(0 < outBy /\ outBy < attempts)
    /\ (vengine /\ pc = "returned" /\ outFile.exists)
          => ~(0 < outBy /\ outBy < attempts)

\* C31: called with no check list (or an empty one), run_vengine_script runs
\* check_restarts and then check_zeroes; an attempt whose run left no .out
\* file ends in the retry (check_restarts raises FileNotFoundError, which is
\* caught), so the loop is never left and nothing is returned while the .out
\* file is absent.
C31_DefaultChecksNeedOut ==
    (vengine /\ check_funcs = EffectiveChecks(<<>>)) =>
        /\ check_funcs = <<"check_restarts", "check_zeroes">>
        /\ invoked = SubSeq(check_funcs, 1, Len(invoked))
        /\ (Verified /\ ~outFile.exists) =>
               /\ pc = "spawn"
               /\ invoked = <<"check_restarts">>
               /\ results = <<"FileNotFoundError">>
               /\ HasLine(logged, <<"Outfile not found!">>)
        /\ (pc = "final" \/ pc = "returned") => outFile.exists

C31_Witness ==
    /\ vengine
    /\ check_funcs = EffectiveChecks(<<>>)
    /\ pc = "spawn"
    /\ attempts = 1
    /\ returncode = "0"
    /\ ~outFile.exists
    /\ results = <<"FileNotFoundError">>

\* C32: called without a time limit, run_vengine_script waits for the process
\* without a deadline: after the start-up keystroke no further keystroke is
\* sent, the heartbeat file is never looked at and the process is never
\* killed, so an attempt is over only once the process has ended by itself
\* and the supervisor holds its own exit code.
C32_NoLimitOnlyWaits ==
    (vengine /\ timelimit = NoLimit) =>
        /\ presses <= 1
        /\ ~killed
        /\ procState # "killed"
        /\ pc # "grace" /\ pc # "heartbeat"
        /\ ~HasLine(logged, <<"Checking for">>)
        /\ ~HasLine(logged, <<"Calibration timed out!">>)
        /\ (attempts > 0 /\ pc \notin {"settle", "wait"}) =>
               /\ procState = "exited"
               /\ returncode = exitCode
               /\ returncode \in ExitCodes

\* The process outlives a stale heartbeat file and the attempt then ends by
\* its exit.
C32_Witness ==
    /\ vengine
    /\ timelimit = NoLimit
    /\ pc = "classify"
    /\ outextExists
    /\ timelag = MaxLag
    /\ presses = 1
    /\ procState = "exited"

\* C33 as stated: under a fair scheduler and a simulator that ends or stops
\* writing to the heartbeat file, every attempt of run_vengine_script comes
\* to its end, and an attempt that passed all checks is followed by the return.
C33_EveryAttemptEnds ==
    /\ (pc = "settle") ~> (pc = "classify")
    /\ (pc = "final") ~> (pc = "returned")

\* C33, amended: the attempts of a call with a time limit come to their end
\* (by the exit of the process or by the kill); after an attempt that passed
\* all checks the call returns the payoff or raises the error of reading it.
C33_LimitedAttemptsEnd ==
    /\ (timelimit # NoLimit /\ pc = "settle") ~> (pc = "classify")
    /\ (pc = "final") ~> (pc = "returned" \/ pc = "raised")

\* The attempt of a call with a time limit has ended by the kill of a
\* simulator that went quiet.
C33_Witness ==
    /\ timelimit # NoLimit
    /\ pc = "classify"
    /\ killed
    /\ procState = "killed"
    /\ Quiet
    /\ outextExists

\* C34: a call of compile_script with a subdirectory leaves the working
\* directory as it found it, whether it returns the payoff or ends by an
\* error raised while the files are copied, the script is written or the
\* simulator is supervised.
C34_WorkingDirectoryRestored ==
    (call # NoCall /\ call.func = "compile_script" /\ call.subdir # NoSubdir
     /\ (pc = "compiled" \/ pc = "raised")) => cwd = Home

\* C35: run_vensim_script deletes the designated output file before every
\* launch, so the file that is there while an attempt's process runs or has
\* just ended was written by that process, and a retry loop that ends because
\* the file exists ends on a file of its final attempt.
C35_OutputOfFinalAttempt ==
    /\ (pc = "vs_run" /\ outextExists) => extBy = attempts
    /\ (pc \in {"final", "returned", "raised"} /\ returncode = "0" /\ outextExists)
           => (extBy = attempts /\ attempts > 0)

\* The loop has ended on the file that the process of the second attempt wrote.
C35_Witness ==
    /\ pc = "final"
    /\ returncode = "0"
    /\ outextExists
    /\ attempts = 2
    /\ extBy = 2

\* C36: constructing Scripts from a control file leaves the control file as
\* it was loaded: after every construction, with whatever suffixes, change
\* list and overrides, its entries (the lists of change files and data files
\* among them) are the loaded ones, and the changes of the Script made last
\* are the control file's base list followed by that Script's own additions.
C36_ControlFileUnchanged ==
    (call # NoCall /\ "loaded" \in DOMAIN call) =>
        /\ call.controlfile = call.loaded
        /\ (script # NoScript /\ exc = "") =>
               LET base == call.loaded["simcontrol"]["changes"]
               IN  script["changes"] =
                       base \o Flatten([i \in 1..Len(call.chglist) |->
                                   Expand(call.loaded["basename"], call.chglist[i])])

\* The second Script made from a control file with change files, after a
\* first one, with additions of its own.
C36_Witness ==
    /\ pc = "construct"
    /\ Len(logged) = 2
    /\ exc = ""
    /\ script # NoScript
    /\ Len(call.loaded["simcontrol"]["changes"]) = 1
    /\ Len(script["changes"]) = 3

\* The single pass C37 describes: at each position the longest key that
\* matches there is replaced and the pass goes on behind it; a character at
\* which no key matches is kept.
RECURSIVE Pass(_, _, _)
Pass(text, i, subs) ==
    IF i > Len(text) THEN <<>>
    ELSE LET m == {k \in DOMAIN subs : StartsAt(text, i, k)}
         IN  IF m = {} THEN <<text[i]>> \o Pass(text, i + 1, subs)
             ELSE LET k == CHOOSE k \in m : \A l \in m : Len(l) <= Len(k)
                  IN  subs[k] \o Pass(text, i + Len(k), subs)

\* C37: rep_strings returns the text of the single left-to-right pass with
\* the longest matching key at each position, never replacing what a
\* replacement produced; a text in which no key occurs is returned unchanged.
C37_SinglePassLongestKey ==
    (call # NoCall /\ call.func = "rep_strings" /\ pc # "widget") =>
        /\ pc = "returned"
        /\ retval = Pass(call.string, 1, call.subs)
        /\ (\A i \in 1..Len(call.string), k \in DOMAIN call.subs :
                ~StartsAt(call.string, i, k)) => retval = call.string

\* The text with every number (run of digits) replaced by one mark.
RECURSIVE Blank(_, _)
Blank(text, i) ==
    IF i > Len(text) THEN <<>>
    ELSE IF IsDigit(text[i]) THEN <<"#">> \o Blank(text, Behind(text, i, FALSE))
    ELSE <<text[i]>> \o Blank(text, i + 1)

\* How often the piece occurs in the text.
Count(text, piece) == Cardinality({i \in 1..Len(text) : StartsAt(text, i, piece)})

\* C38: update_mdl_params first writes the backup with the model file's
\* content at the call and then overwrites the model file; the new content
\* differs from the old one in numbers only (blanks and line breaks are the
\* same), not at all when the input names no constant, and not in the
\* definition of ax when the input names x only.
C38_OnlyNamedValuesChange ==
    (call # NoCall /\ call.func = "update_mdl_params" /\ pc # "widget") =>
        /\ disk["backup"] = call.mdl
        /\ pc = "substitute" => disk["mdl"] = call.mdl
        /\ pc = "returned" =>
               LET named == Findall(call.inputfile)
                   ax == <<"a", "x", " ", "=", " ", "1">>
               IN  /\ Blank(disk["mdl"], 1) = Blank(call.mdl, 1)
                   /\ named = <<>> => disk["mdl"] = call.mdl
                   /\ (\A i \in 1..Len(named) : named[i][1] = <<"x">>)
                          => Count(disk["mdl"], ax) = Count(call.mdl, ax)

====
